---- MODULE Spec2Model ----
(***************************************************************************)
(* Verification model of the outline/timeline extraction core of           *)
(* viralautoclip: the subtitle chunker (utils/text_processor.py), the      *)
(* timeline item validation (pipeline/step2_timeline.py), the call         *)
(* orchestrator (core/llm_manager.py, utils/llm_client.py,                 *)
(* core/shared_config.py) and the outline extractor                        *)
(* (pipeline/step1_outline.py).                                            *)
(*                                                                         *)
(* Each component is a state machine of its own, with its own             *)
(* specification (SpecChunk, SpecValidate, SpecRetry, SpecOutline, ...);   *)
(* the variables of the other components stay at their idle values.        *)
(*                                                                         *)
(* Conventions.  A timestamp string "HH:MM:SS,mmm" is the record           *)
(* [h, m, s, ms, sep] with sep the separator before the milliseconds:      *)
(* "," (SubRip), "." (after _convert_time_format) or "" (no fraction).     *)
(* time_to_seconds returns a float number of seconds in the code; the      *)
(* model returns the same quantity in integer milliseconds.  A text is a   *)
(* sequence of characters.  An unset environment variable is "".           *)
(***************************************************************************)
EXTENDS Integers, Sequences, FiniteSets, TLC

VARIABLES
    \* ---- TextProcessor.chunk_srt_data
    srt_data,           \* argument: list of subtitle entries
    interval_minutes,   \* argument
    max_chars,          \* argument
    chunks,             \* local: list of chunk payloads built so far
    current_entries,    \* local
    current_text_len,   \* local
    chunk_index,        \* local
    last_cut_time,      \* local (milliseconds)
    entry_pos,          \* position of the for loop in srt_data (1-based)
    chunk_pc,           \* "start", "loop", "done"
    \* ---- TimelineExtractor._parse_and_validate_response
    parsed_response,    \* what parse_json_response made of the response
    chunk_start,        \* argument: start_time of the chunk's first entry
    chunk_end,          \* argument: end_time of the chunk's last entry
    v_chunk_index,      \* argument chunk_index
    validated_items,    \* local
    item_pos,           \* position of the for loop in parsed_response
    debug_files,        \* error_type tags written by _save_debug_response
    debug_failed,       \* history: error_type tags whose write failed
    validate_pc,        \* "start", "loop", "done"
    \* ---- LLMManager / LLMClient / ConfigManager
    settings_file,      \* contents of settings.json
    cm_settings,        \* config_manager.settings
    current_provider,   \* LLMManager.current_provider
    arg_max_retries,    \* max_retries argument of LLMClient.call_with_retry
    total_retries,      \* local of LLMManager.call_with_retry
    attempt,            \* loop variable of LLMManager.call_with_retry
    wait_time,          \* local: seconds computed by the except branch
    last_error,         \* the exception of the latest failed attempt
    retry_result,       \* what call_with_retry returned or raised
    retry_pc,           \* "start", "attempt", "sleeping", "returned", "raised"
    n_attempts,         \* history: calls of LLMManager.call made by this call
    n_failures,         \* history: how many of them raised
    attempt_settings,   \* history: the settings the latest attempt loaded
    dispatched_with,    \* history: provider the latest attempt dispatched to
    n_writes,           \* history: writes of settings.json
    settings_torn,      \* settings.json is open for writing: truncated or partial
    attempt_read,       \* history: the last attempt's read of settings.json:
                        \* "none", "before" any write, "racing" with one, "after"
    env,                \* os.environ of the worker process
    \* ---- OutlineExtractor.extract_outline
    chunks_dir,         \* step1_chunks/chunk_N.txt: the text written, by N
    srt_chunks_dir,     \* step1_srt_chunks/chunk_N.json of this run, by N
    chunk_files,        \* local: chunk indices of the files written, in order
    outline_i,          \* loop variable i of the for loop (0-based)
    all_outlines,       \* local
    final_outlines,     \* the list returned
    outline_pc,         \* "start", "loop", "done", "saved"
    srt_file,           \* the subtitle file at srt_path
    parse_srt_result,   \* what parse_srt returned or raised
    outline_file,       \* step1_outline.json
    call_log,           \* history: chunk index of every orchestrated call made
    outcomes,           \* history: outcome of the call made for each chunk
    \* ---- TimelineExtractor.extract_timeline
    tl_outlines,        \* argument outlines
    srt_dir_exists,     \* step1_srt_chunks exists
    srt_chunk_files,    \* step1_srt_chunks/chunk_N.json, by N
    llm_raw_files,      \* step2_llm_raw_output: the names of the files in it
    timeline_files,     \* step2_timeline_chunks/chunk_N.json, by N
    tl_debug_files,     \* debug_responses: (chunk, error type) of the files in it
    tl_groups,          \* local outlines_by_chunk, in insertion order
    tl_g,               \* position of the for loop in tl_groups (1-based)
    retry_count,        \* loop variable of the parse retry loop
    parsed_items,       \* local: None, or the latest validated list
    tl_pc,              \* "start", "group", "attempt", "assemble", "done"
    tl_result,          \* the list returned
    tl_calls,           \* history: orchestrated calls made, by chunk
    tl_written,         \* history: chunks whose result file this run wrote
    tl_cache_used,      \* history: chunks whose cached raw response was read
    tl_run,             \* history: 1 for the first run, 2 for the run after it
    tl_answered,        \* history: chunks an earlier run saved a response for
    tl_events,          \* history: the calls and file writes of this run, in order
    \* ---- OutlineExtractor._merge_outlines
    m_input,            \* argument outlines
    m_output,           \* the list returned for m_input
    m_again,            \* the list returned for m_output
    m_variant,          \* m_input with one entry deleted or moved
    m_variant_output,   \* the list returned for m_variant
    m_edit,             \* what was done to get m_variant
    m_pc,               \* "start", "merged", "again", "edited"
    \* ---- LLMClient.parse_json_response
    p_response,         \* argument response
    p_result,           \* what the call returned or raised
    p_tried,            \* history: the strategies that found a candidate
    p_pc,               \* "start", "fenced", "span", "clean", "done"
    \* ---- LLMProvider.test_connection
    tc_provider,        \* the provider object test_connection is called on
    tc_reply,           \* what the backend does with the request
    tc_call,            \* what self.call returned or raised
    tc_result,          \* what test_connection returned or raised
    tc_pc,              \* "start", "called", "done"
    tc_endpoint,        \* where the request of self.call was sent ("" before it)
    \* ---- LLMProviderFactory.get_all_available_models
    cat_installed,      \* the packages that can be imported
    cat_models,         \* local models
    cat_pos,            \* position of the for loop in _providers (1-based)
    cat_pc,             \* "loop", "done"
    \* ---- OutlineExtractor._parse_outline_response
    po_response,        \* argument response, as its stripped lines
    po_chunk_index,     \* argument chunk_index
    po_outlines,        \* the list returned
    po_pc,              \* "start", "done"
    \* ---- two runs of extract_timeline on one metadata directory
    rc_outlines,        \* argument outlines of both runs
    rc_files,           \* step2_timeline_chunks/chunk_N.json, by N
    rc_writes,          \* history: the writes of result files, in order
    rc_groups,          \* by run: outlines_by_chunk
    rc_g,               \* by run: position of the for loop of line 74
    rc_retry,           \* by run: retry_count
    rc_pc,              \* by run: "start", "group", "done"
    rc_result,          \* by run: the list returned
    rc_assembled_at     \* by run, history: the writes made before its assembly

chunkVars == <<srt_data, interval_minutes, max_chars, chunks, current_entries,
               current_text_len, chunk_index, last_cut_time, entry_pos, chunk_pc>>

validateVars == <<parsed_response, chunk_start, chunk_end, v_chunk_index,
                  validated_items, item_pos, debug_files, debug_failed,
                  validate_pc>>

retryVars == <<settings_file, cm_settings, current_provider, arg_max_retries,
               total_retries, attempt, wait_time, last_error, retry_result,
               retry_pc, n_attempts, n_failures, attempt_settings, dispatched_with,
               n_writes, settings_torn, attempt_read, env>>

outlineVars == <<chunks_dir, srt_chunks_dir, chunk_files, outline_i, all_outlines, final_outlines, outline_pc,
                 call_log, outcomes, srt_file, parse_srt_result, outline_file>>

timelineVars == <<tl_outlines, srt_dir_exists, srt_chunk_files, llm_raw_files,
                  timeline_files, tl_debug_files, tl_groups, tl_g, retry_count,
                  parsed_items, tl_pc, tl_result, tl_calls, tl_written,
                  tl_cache_used, tl_run, tl_answered, tl_events>>

mergeVars == <<m_input, m_output, m_again, m_variant, m_variant_output, m_edit,
               m_pc>>

parseVars == <<p_response, p_result, p_tried, p_pc>>

connVars == <<tc_provider, tc_reply, tc_call, tc_result, tc_pc, tc_endpoint>>

catalogVars == <<cat_installed, cat_models, cat_pos, cat_pc>>

recognizeVars == <<po_response, po_chunk_index, po_outlines, po_pc>>

raceVars == <<rc_outlines, rc_files, rc_writes, rc_groups, rc_g, rc_retry, rc_pc,
              rc_result, rc_assembled_at>>

vars == <<chunkVars, validateVars, retryVars, outlineVars, timelineVars, mergeVars,
          parseVars, connVars, catalogVars, recognizeVars, raceVars>>

notChunkVars == <<validateVars, retryVars, outlineVars, timelineVars, mergeVars,
    parseVars, connVars, catalogVars, recognizeVars, raceVars>>
notValidateVars == <<chunkVars, retryVars, outlineVars, timelineVars, mergeVars,
    parseVars, connVars, catalogVars, recognizeVars, raceVars>>
notRetryVars == <<chunkVars, validateVars, outlineVars, timelineVars, mergeVars,
    parseVars, connVars, catalogVars, recognizeVars, raceVars>>
notOutlineVars == <<chunkVars, validateVars, retryVars, timelineVars, mergeVars,
    parseVars, connVars, catalogVars, recognizeVars, raceVars>>
notTimelineVars == <<chunkVars, validateVars, retryVars, outlineVars, mergeVars,
    parseVars, connVars, catalogVars, recognizeVars, raceVars>>
notParseVars == <<chunkVars, validateVars, retryVars, outlineVars, timelineVars,
                  mergeVars, connVars, catalogVars, recognizeVars, raceVars>>
notMergeVars == <<chunkVars, validateVars, retryVars, outlineVars, timelineVars,
    parseVars, connVars, catalogVars, recognizeVars, raceVars>>
notConnVars == <<chunkVars, validateVars, retryVars, outlineVars, timelineVars,
    mergeVars, parseVars, catalogVars, recognizeVars, raceVars>>
notCatalogVars == <<chunkVars, validateVars, retryVars, outlineVars, timelineVars,
    mergeVars, parseVars, connVars, recognizeVars, raceVars>>
notRecognizeVars == <<chunkVars, validateVars, retryVars, outlineVars, timelineVars,
    mergeVars, parseVars, connVars, catalogVars, raceVars>>
notRaceVars == <<chunkVars, validateVars, retryVars, outlineVars, timelineVars,
    mergeVars, parseVars, connVars, catalogVars, recognizeVars>>


(***************************************************************************)
(* Bounds of the model.                                                    *)
(***************************************************************************)
MaxEntries == 3

(***************************************************************************)
(* Timestamps and texts.                                                   *)
(***************************************************************************)
\* "HH:MM:SS,mmm": sep is what stands between the seconds and the fraction,
\* tail what follows the last digit
Time(h, m, s, ms) == [h |-> h, m |-> m, s |-> s, ms |-> ms, sep |-> ",", tail |-> ""]

\* TextProcessor.time_to_seconds: ',' is replaced by '.', the string is split
\* on ':' into h, m, s_full; the result is int(h)*3600 + int(m)*60 +
\* float(s_full), here in milliseconds.  A string without a fraction
\* (sep = "") has float(s_full) = s; float ignores a newline after the digits.
time_to_seconds(t) ==
    (t.h * 3600 + t.m * 60 + t.s) * 1000 + (IF t.sep = "" THEN 0 ELSE t.ms)

RECURSIVE JoinSpace(_)
\* " ".join(texts)
JoinSpace(texts) ==
    IF texts = <<>> THEN <<>>
    ELSE IF Len(texts) = 1 THEN texts[1]
    ELSE texts[1] \o <<" ">> \o JoinSpace(Tail(texts))

\* [e['text'] for e in entries]
TextsOf(entries) == [k \in 1..Len(entries) |-> entries[k].text]

(***************************************************************************)
(* TextProcessor.chunk_srt_data                                            *)
(***************************************************************************)
\* A plausible slip: the payload keeps all but the last entry.
_create_chunk_payload_DropLast(index, entries) ==
    [chunk_index |-> index,
     text        |-> JoinSpace(TextsOf(entries)),
     start_time  |-> entries[1].start_time,
     end_time    |-> entries[Len(entries)].end_time,
     srt_entries |-> SubSeq(entries, 1, Len(entries) - 1)]

\* A plausible slip: chunks numbered from one and closed by the end of their
\* first entry.
_create_chunk_payload_OneBased(index, entries) ==
    [chunk_index |-> index + 1,
     text        |-> JoinSpace(TextsOf(entries)),
     start_time  |-> entries[1].start_time,
     end_time    |-> entries[1].end_time,
     srt_entries |-> entries]

_create_chunk_payload(index, entries) ==
    [chunk_index |-> index,
     text        |-> JoinSpace(TextsOf(entries)),
     start_time  |-> entries[1].start_time,
     end_time    |-> entries[Len(entries)].end_time,
     srt_entries |-> entries]

\* A plausible slip: the interval in minutes is converted to seconds twice.
time_limit_reached_Hours(entry_start, last_cut, interval_seconds) ==
    (entry_start - last_cut) >= interval_seconds * 60 * 1000

\* line 93; times in milliseconds
time_limit_reached(entry_start, last_cut, interval_seconds) ==
    (entry_start - last_cut) >= interval_seconds * 1000

\* line 94
char_limit_reached(text_len, entry_text_len, maxc) ==
    (text_len + entry_text_len) >= maxc

T0 == Time(0, 0, 0, 0)
T1 == Time(0, 0, 30, 500)
T2 == Time(0, 1, 0, 0)
T3 == Time(0, 1, 20, 0)
T4 == Time(0, 1, 25, 250)

\* (start_time, end_time) of the subtitle entries drawn
EntryTimes == {<<T0, T1>>, <<T1, T2>>, <<T1, T3>>, <<T2, T3>>, <<T3, T4>>}
EntryTexts == {<<"a">>, <<"a", "b", "c">>}
IntervalChoices == {1, 2}
MaxCharsChoices == {2, 4}

\* The entry lists parse_srt can return: entry k carries index k.
SrtInputs ==
    UNION {
      { [k \in 1..n |-> [index      |-> k,
                         start_time |-> tm[k][1],
                         end_time   |-> tm[k][2],
                         text       |-> tx[k]]]
        : tm \in [1..n -> EntryTimes], tx \in [1..n -> EntryTexts] }
      : n \in 0..MaxEntries }

ChunkStart ==
    /\ srt_data \in SrtInputs
    /\ interval_minutes \in IntervalChoices
    /\ max_chars \in MaxCharsChoices
    /\ chunks = <<>>
    /\ current_entries = <<>>
    /\ current_text_len = 0
    /\ chunk_index = 0
    /\ last_cut_time = 0
    /\ entry_pos = 1
    /\ chunk_pc = "start"

\* lines 75-76: an empty input returns [] at once
ChunkEmpty ==
    /\ chunk_pc = "start"
    /\ srt_data = <<>>
    /\ chunk_pc' = "done"
    /\ UNCHANGED <<srt_data, interval_minutes, max_chars, chunks, current_entries,
                   current_text_len, chunk_index, last_cut_time, entry_pos>>
    /\ UNCHANGED notChunkVars

\* lines 78-86
ChunkBegin ==
    /\ chunk_pc = "start"
    /\ srt_data # <<>>
    /\ last_cut_time' = time_to_seconds(srt_data[1].start_time)
    /\ chunk_pc' = "loop"
    /\ UNCHANGED <<srt_data, interval_minutes, max_chars, chunks, current_entries,
                   current_text_len, chunk_index, entry_pos>>
    /\ UNCHANGED notChunkVars

\* lines 88-106: one iteration of the for loop
ChunkLoop ==
    /\ chunk_pc = "loop"
    /\ entry_pos <= Len(srt_data)
    /\ LET entry == srt_data[entry_pos]
           entry_start == time_to_seconds(entry.start_time)
           entry_text_len == Len(entry.text)
           cut == /\ \/ time_limit_reached(entry_start, last_cut_time,
                                           interval_minutes * 60)
                     \/ char_limit_reached(current_text_len, entry_text_len,
                                           max_chars)
                  /\ current_entries # <<>>
       IN  IF cut
           THEN /\ chunks' = Append(chunks,
                                    _create_chunk_payload(chunk_index, current_entries))
                /\ chunk_index' = chunk_index + 1
                /\ current_entries' = <<entry>>
                /\ current_text_len' = entry_text_len
                /\ last_cut_time' = entry_start
           ELSE /\ current_entries' = Append(current_entries, entry)
                /\ current_text_len' = current_text_len + entry_text_len
                /\ UNCHANGED <<chunks, chunk_index, last_cut_time>>
    /\ entry_pos' = entry_pos + 1
    /\ UNCHANGED <<srt_data, interval_minutes, max_chars, chunk_pc>>
    /\ UNCHANGED notChunkVars

\* lines 108-112: flush the remaining entries and return
ChunkFlush ==
    /\ chunk_pc = "loop"
    /\ entry_pos > Len(srt_data)
    /\ chunks' = IF current_entries # <<>>
                 THEN Append(chunks,
                             _create_chunk_payload(chunk_index, current_entries))
                 ELSE chunks
    /\ chunk_pc' = "done"
    /\ UNCHANGED <<srt_data, interval_minutes, max_chars, current_entries,
                   current_text_len, chunk_index, last_cut_time, entry_pos>>
    /\ UNCHANGED notChunkVars

ChunkNext == ChunkEmpty \/ ChunkBegin \/ ChunkLoop \/ ChunkFlush

\* the chunker before any call
ChunkIdle ==
    /\ srt_data = <<>>
    /\ interval_minutes = 10
    /\ max_chars = 0
    /\ chunks = <<>>
    /\ current_entries = <<>>
    /\ current_text_len = 0
    /\ chunk_index = 0
    /\ last_cut_time = 0
    /\ entry_pos = 1
    /\ chunk_pc = "idle"


(***************************************************************************)
(* Claims about chunk_srt_data                                             *)
(***************************************************************************)
RECURSIVE ConcatEntries(_)
ConcatEntries(cs) ==
    IF cs = <<>> THEN <<>> ELSE cs[1].srt_entries \o ConcatEntries(Tail(cs))

\* C1: the srt_entries of the returned chunks, concatenated in chunk order,
\* are the input entry sequence exactly (nothing dropped, duplicated or
\* reordered), and an empty input yields no chunks.
C1_Partition ==
    chunk_pc = "done" =>
        /\ ConcatEntries(chunks) = srt_data
        /\ (srt_data = <<>> => chunks = <<>>)

\* C1 witness: a run that returned at least two chunks for three entries.
C1_Witness ==
    /\ chunk_pc = "done"
    /\ Len(srt_data) >= 3
    /\ Len(chunks) >= 2
    /\ \E c \in 1..Len(chunks) : Len(chunks[c].srt_entries) >= 2

\* C2: every returned chunk holding more than one entry has a text field
\* (entry texts joined by single spaces) no longer than max_chars.
C2_TextWithinBudget ==
    chunk_pc = "done" =>
        \A c \in 1..Len(chunks) :
            Len(chunks[c].srt_entries) > 1 => Len(chunks[c].text) <= max_chars

\* consecutive input entries start less than one interval apart
SpacedWithinInterval ==
    \A k \in 1..(Len(srt_data) - 1) :
        time_to_seconds(srt_data[k + 1].start_time)
          - time_to_seconds(srt_data[k].start_time) < interval_minutes * 60 * 1000

C28_ContiguousNonEmptyChunks ==
    chunk_pc = "done" =>
        \A k \in 1..Len(chunks) :
            /\ chunks[k].srt_entries # <<>>
            /\ chunks[k].chunk_index = k - 1
            /\ chunks[k].start_time = chunks[k].srt_entries[1].start_time
            /\ chunks[k].end_time =
                   chunks[k].srt_entries[Len(chunks[k].srt_entries)].end_time

\* C28 witness: three entries returned as two chunks, the first of them
\* holding two entries whose times differ.
C28_Witness ==
    /\ chunk_pc = "done"
    /\ Len(srt_data) = 3
    /\ Len(chunks) = 2
    /\ Len(chunks[1].srt_entries) = 2
    /\ chunks[1].chunk_index = 0 /\ chunks[2].chunk_index = 1
    /\ chunks[1].srt_entries[1].end_time # chunks[1].srt_entries[2].end_time
    /\ chunks[1].end_time = chunks[1].srt_entries[2].end_time

(***************************************************************************)
(* TimelineExtractor._parse_and_validate_response                          *)
(***************************************************************************)
MaxItems == 2

\* the keys a well-shaped timeline item carries
ItemKeys == {"outline", "start_time", "end_time"}

\* _validate_time_format: the string matches ^\d{2}:\d{2}:\d{2},\d{3}$
\* with re.match; "$" matches at the end of the string and also just before
\* a newline that ends it
_validate_time_format(time_str) ==
    /\ time_str.sep = ","
    /\ time_str.tail \in {"", "\n"}
    /\ time_str.h \in 0..99 /\ time_str.m \in 0..99 /\ time_str.s \in 0..99
    /\ time_str.ms \in 0..999

\* _convert_time_format: ',' becomes '.'
_convert_time_format(time_str) ==
    IF time_str.sep = "," THEN [time_str EXCEPT !.sep = "."] ELSE time_str

\* A plausible slip: the start is never pulled up to the chunk start.
adjust_time_range_NoStartClamp(timeline_item, cstart, cend) ==
    LET end_sec == time_to_seconds(_convert_time_format(timeline_item.end_time))
    IN  IF end_sec > time_to_seconds(cend)
        THEN [timeline_item EXCEPT !.end_time = cend]
        ELSE timeline_item

\* lines 248-262: the item with its times adjusted to the chunk span
adjust_time_range(timeline_item, cstart, cend) ==
    LET start_time == _convert_time_format(timeline_item.start_time)
        end_time == _convert_time_format(timeline_item.end_time)
        start_sec == time_to_seconds(start_time)
        end_sec == time_to_seconds(end_time)
        chunk_start_sec == time_to_seconds(cstart)
        chunk_end_sec == time_to_seconds(cend)
        item1 == IF start_sec < chunk_start_sec
                 THEN [timeline_item EXCEPT !.start_time = cstart]
                 ELSE timeline_item
    IN  IF end_sec > chunk_end_sec
        THEN [item1 EXCEPT !.end_time = cend]
        ELSE item1

\* line 236: timeline_item['chunk_index'] = chunk_index
attach_chunk_index(timeline_item, index) ==
    [json        |-> timeline_item.json,
     keys        |-> timeline_item.keys \cup {"chunk_index"},
     outline     |-> timeline_item.outline,
     start_time  |-> timeline_item.start_time,
     end_time    |-> timeline_item.end_time,
     chunk_index |-> index]

\* line 231 on an element that is no container: "'outline' not in 5" raises
\* TypeError outside the inner try ("'outline' not in <str>" is a substring
\* test, true of the strings drawn)
membership_raises(timeline_item) == timeline_item.json = "number"

\* lines 231-246: the item carries the three keys and both times are well formed
item_accepted(timeline_item) ==
    /\ timeline_item.json = "object"
    /\ "outline" \in timeline_item.keys
    /\ "start_time" \in timeline_item.keys
    /\ "end_time" \in timeline_item.keys
    /\ _validate_time_format(timeline_item.start_time)
    /\ _validate_time_format(timeline_item.end_time)

V0 == Time(0, 1, 0, 0)
V1 == Time(0, 2, 0, 0)
V2 == Time(0, 10, 0, 0)
V3 == Time(0, 20, 0, 0)
V4 == Time(0, 40, 0, 0)
V5 == Time(0, 45, 0, 0)
ItemTimes == {V0, V1, V2, V3, V4, V5}
\* "00:10:00.000" and "00:10:00": rejected by _validate_time_format
DotTime == [V2 EXCEPT !.sep = "."]
ShortTime == [V2 EXCEPT !.sep = ""]
\* "00:10:00,000\n": accepted by _validate_time_format
NewlineTime == [V2 EXCEPT !.tail = "\n"]

\* (chunk_start, chunk_end, chunk_index) of the chunks drawn
ChunkSpans == {<<Time(0, 5, 0, 0), Time(0, 30, 0, 0), 1>>,
               <<Time(0, 1, 0, 0), Time(0, 40, 0, 0), 0>>}

\* An element of the parsed list.  json is its JSON type; for an object, keys
\* is the set of keys it carries, and the field of a key it does not carry is
\* not read.
Item(ks, o, st, en) ==
    [json |-> "object", keys |-> ks, outline |-> o, start_time |-> st, end_time |-> en]
\* a JSON number and a JSON string as elements of the list
NumberElement == [Item({}, "", V2, V2) EXCEPT !.json = "number"]
StringElement == [Item({}, "", V2, V2) EXCEPT !.json = "string"]

ResponseItems ==
    {Item(ItemKeys, "A", st, en) : st \in ItemTimes, en \in ItemTimes}
    \cup {Item(ItemKeys \ {k}, "A", V2, V3) : k \in ItemKeys}
    \cup {Item(ItemKeys, "A", DotTime, V3), Item(ItemKeys, "A", V2, ShortTime)}
    \cup {NumberElement, StringElement}

\* What parse_json_response makes of the response: it raises, or returns a
\* scalar, a mapping or a list.
ParsedResponses ==
    {[kind |-> k, items |-> <<>>] : k \in {"raise", "scalar", "dict"}}
    \cup {[kind |-> "list", items |-> its] :
            its \in UNION {[1..n -> ResponseItems] : n \in 0..MaxItems}}

ValidateStart ==
    /\ parsed_response \in ParsedResponses
    /\ \E span \in ChunkSpans :
           chunk_start = span[1] /\ chunk_end = span[2] /\ v_chunk_index = span[3]
    /\ validated_items = <<>>
    /\ item_pos = 1
    /\ debug_files = {}
    /\ debug_failed = {}
    /\ validate_pc = "start"

\* the validator before any call
ValidateIdle ==
    /\ parsed_response = [kind |-> "list", items |-> <<>>]
    /\ chunk_start = Time(0, 0, 0, 0)
    /\ chunk_end = Time(0, 0, 0, 0)
    /\ v_chunk_index = 0
    /\ validated_items = <<>>
    /\ item_pos = 1
    /\ debug_files = {}
    /\ debug_failed = {}
    /\ validate_pc = "idle"

\* _save_debug_response for each of the given error types: the whole body
\* is in a try (lines 299-307), so a write that fails (mkdir or open raises)
\* is logged and nothing else happens
_save_debug_response(types) ==
    \E saved \in SUBSET types :
        /\ debug_files' = debug_files \cup saved
        /\ debug_failed' = debug_failed \cup (types \ saved)

\* A plausible slip: the response is not saved before it is parsed.
begin_debug_types_NoOriginal(kind) ==
    CASE kind = "raise"  -> {"parse_error"}
      [] kind = "scalar" -> {"invalid_structure"}
      [] kind = "dict"   -> {"not_list"}
      [] OTHER           -> {}

\* the error types saved by lines 213, 222, 227 and 283 before the loop
begin_debug_types(kind) ==
    {"original_response"}
    \cup CASE kind = "raise"  -> {"parse_error"}
           [] kind = "scalar" -> {"invalid_structure"}
           [] kind = "dict"   -> {"not_list"}
           [] OTHER           -> {}

\* lines 210-228 and 272-284: save the response, parse it, check its shape
ValidateBegin ==
    /\ validate_pc = "start"
    /\ _save_debug_response(begin_debug_types(parsed_response.kind))
    /\ validate_pc' = IF parsed_response.kind = "list" THEN "loop" ELSE "done"
    /\ UNCHANGED <<parsed_response, chunk_start, chunk_end, v_chunk_index,
                   validated_items, item_pos>>
    /\ UNCHANGED notValidateVars

\* line 231 raises on the element: the except branch of lines 272-284 saves
\* the error and returns []
ValidateItemRaises ==
    /\ validate_pc = "loop"
    /\ item_pos <= Len(parsed_response.items)
    /\ membership_raises(parsed_response.items[item_pos])
    /\ validated_items' = <<>>
    /\ _save_debug_response({"parse_error"})
    /\ validate_pc' = "done"
    /\ UNCHANGED <<parsed_response, chunk_start, chunk_end, v_chunk_index, item_pos>>
    /\ UNCHANGED notValidateVars

\* lines 230-268: one iteration of the for loop
ValidateItem ==
    /\ validate_pc = "loop"
    /\ item_pos <= Len(parsed_response.items)
    /\ ~membership_raises(parsed_response.items[item_pos])
    /\ LET timeline_item == parsed_response.items[item_pos]
       IN  validated_items' =
               IF item_accepted(timeline_item)
               THEN Append(validated_items,
                           attach_chunk_index(
                               adjust_time_range(timeline_item, chunk_start, chunk_end),
                               v_chunk_index))
               ELSE validated_items
    /\ item_pos' = item_pos + 1
    /\ UNCHANGED <<parsed_response, chunk_start, chunk_end, v_chunk_index,
                   debug_files, debug_failed, validate_pc>>
    /\ UNCHANGED notValidateVars

\* line 270
ValidateReturn ==
    /\ validate_pc = "loop"
    /\ item_pos > Len(parsed_response.items)
    /\ validate_pc' = "done"
    /\ UNCHANGED <<parsed_response, chunk_start, chunk_end, v_chunk_index,
                   validated_items, item_pos, debug_files, debug_failed>>
    /\ UNCHANGED notValidateVars

ValidateNext == ValidateBegin \/ ValidateItem \/ ValidateItemRaises \/ ValidateReturn

(***************************************************************************)
(* Claims about _parse_and_validate_response                               *)
(***************************************************************************)
\* the item carries outline, start_time and end_time, both times "HH:MM:SS,mmm"
WellFormedItem(it) ==
    /\ it.json = "object"
    /\ ItemKeys \subseteq it.keys
    /\ it.start_time.sep = "," /\ it.start_time.tail = ""
    /\ it.end_time.sep = "," /\ it.end_time.tail = ""

\* the well-formed items among those the loop has gone through, in order
WellFormedSoFar ==
    IF validate_pc \in {"loop", "done"} /\ parsed_response.kind = "list"
    THEN SelectSeq(SubSeq(parsed_response.items, 1, item_pos - 1), WellFormedItem)
    ELSE <<>>

\* C4: every emitted item satisfies
\* chunk.start_time <= start_time <= end_time <= chunk.end_time, in seconds.
C4_ItemsWithinChunk ==
    \A k \in 1..Len(validated_items) :
        LET it == validated_items[k]
        IN  /\ time_to_seconds(chunk_start) <= time_to_seconds(it.start_time)
            /\ time_to_seconds(it.start_time) <= time_to_seconds(it.end_time)
            /\ time_to_seconds(it.end_time) <= time_to_seconds(chunk_end)

\* the parsed list holds only JSON objects and strings
OnlyObjectsAndStrings ==
    \A k \in 1..Len(parsed_response.items) :
        parsed_response.items[k].json \in {"object", "string"}

C24_PerItemRejection ==
    (validate_pc = "done" /\ parsed_response.kind = "list")
    => LET kept == SelectSeq(parsed_response.items, WellFormedItem)
       IN  /\ Len(validated_items) = Len(kept)
           /\ \A k \in 1..Len(kept) :
                  validated_items[k] =
                      attach_chunk_index(
                          adjust_time_range(kept[k], chunk_start, chunk_end),
                          v_chunk_index)

(***************************************************************************)
(* ConfigManager, LLMManager, LLMClient                                    *)
(***************************************************************************)
MaxRetries == 4
MaxWrites == 1

\* str.lower() on the provider names that occur
Lower(str) == IF str = "OpenAI" THEN "openai" ELSE str

\* the values of the ProviderType enumeration
ProviderTypes == {"dashscope", "openai", "gemini", "siliconflow", "groq",
                  "together", "openrouter", "g4f", "cerebras"}

\* ConfigManager.get_api_config: base_urls.get(p, "https://api.openai.com/v1")
BaseUrlOf(p) ==
    CASE p = "openrouter"  -> "https://openrouter.ai/api/v1"
      [] p = "groq"        -> "https://api.groq.com/openai/v1"
      [] p = "dashscope"   -> "https://dashscope.aliyuncs.com/compatible-mode/v1"
      [] p = "siliconflow" -> "https://api.siliconflow.cn/v1"
      [] p = "openai"      -> "https://api.openai.com/v1"
      [] p = "together"    -> "https://api.together.xyz/v1"
      [] OTHER             -> "https://api.openai.com/v1"

\* ConfigManager.get_api_config: api_keys.get(p, "")
ApiKeyOf(s, p) ==
    CASE p = "openrouter"  -> s.openrouter_api_key
      [] p = "groq"        -> s.groq_api_key
      [] p = "dashscope"   -> s.dashscope_api_key
      [] p = "openai"      -> s.openai_api_key
      [] p = "siliconflow" -> s.siliconflow_api_key
      [] p = "gemini"      -> s.gemini_api_key
      [] p = "together"    -> s.together_api_key
      [] OTHER             -> ""

get_api_config(s) ==
    LET p == Lower(s.llm_provider)
    IN  [provider   |-> p,
         model_name |-> s.model_name,
         api_key    |-> ApiKeyOf(s, p),
         base_url   |-> BaseUrlOf(p)]

\* self.current_provider = None
NoProvider == [kind |-> "none", api_key |-> "", model_name |-> "", base_url |-> ""]

\* LLMProviderFactory.create_provider: a provider object of the given kind
create_provider(provider_type, api_key, model_name, base_url) ==
    [kind |-> provider_type, api_key |-> api_key, model_name |-> model_name,
     base_url |-> base_url]

\* LLMManager._initialize_provider: the value of self.current_provider after
\* the call, given its value before and config_manager.settings.
_initialize_provider(provider_before, s) ==
    LET api_cfg == get_api_config(s)
    IN  IF api_cfg.provider \notin ProviderTypes
        THEN NoProvider                     \* ProviderType(...) raises: except branch
        ELSE IF api_cfg.api_key # ""
        THEN create_provider(api_cfg.provider, api_cfg.api_key,
                             api_cfg.model_name, api_cfg.base_url)
        ELSE provider_before                \* warning only

\* os.getenv(name) is truthy: the variable replaces the field
Override(val, field) == IF val # "" THEN val ELSE field

\* ConfigManager.load: Settings(**data) of the file's contents, then the
\* environment variables that are set replace the provider, the model and
\* the keys (key_mapping in its order: API_DASHSCOPE_API_KEY after
\* DASH_SCOPE_API_KEY)
load(file, e) ==
    [file EXCEPT
        !.llm_provider = Override(e.LLM_PROVIDER, @),
        !.model_name = Override(e.API_MODEL_NAME, @),
        !.groq_api_key = Override(e.GROQ_API_KEY, @),
        !.openrouter_api_key = Override(e.OPENROUTER_API_KEY, @),
        !.openai_api_key = Override(e.OPENAI_API_KEY, @),
        !.gemini_api_key = Override(e.GEMINI_API_KEY, @),
        !.dashscope_api_key =
            Override(e.API_DASHSCOPE_API_KEY, Override(e.DASH_SCOPE_API_KEY, @)),
        !.siliconflow_api_key = Override(e.SILICONFLOW_API_KEY, @),
        !.together_api_key = Override(e.TOGETHER_API_KEY, @)]

\* ConfigManager.load on a file that may be open for writing: json.load
\* raises on a truncated or partial document, the except branch of line 114
\* prints, self.settings stays what it was, and the overrides are applied
load_or_keep(before, file, torn, e) == load(IF torn THEN before ELSE file, e)

\* Python's "a or b" on an optional integer
PyOr(a, b) == IF a.is_none \/ a.value = 0 THEN b ELSE a.value
IntArg(n) == [is_none |-> FALSE, value |-> n]
NoneArg == [is_none |-> TRUE, value |-> 0]

\* Error messages, as the words of str(e).
ErrNoProvider == <<"Nenhum", "provedor", "de", "LLM", "configurado.">>
Err429 == <<"Error", "code:", "429">>
ErrRateLimit == <<"Rate", "Limit", "reached">>
ErrTimeout == <<"Connection", "timeout">>
ErrRateUnderscore == <<"rate_limit_exceeded">>
ProviderErrors == {Err429, ErrRateLimit, ErrTimeout, ErrRateUnderscore}

\* str.lower() on the words that occur
LowerWord(w) ==
    CASE w = "Rate" -> "rate" [] w = "Limit" -> "limit" [] w = "Error" -> "error"
      [] w = "Connection" -> "connection" [] w = "Nenhum" -> "nenhum"
      [] w = "LLM" -> "llm" [] OTHER -> w

\* err_msg = str(e).lower()
LowerMsg(e) == [k \in 1..Len(e) |-> LowerWord(e[k])]

\* line 89: "429" in err_msg or "rate limit" in err_msg
is_rate_limit(e) ==
    LET err_msg == LowerMsg(e)
    IN  \/ \E k \in 1..Len(err_msg) : err_msg[k] = "429"
        \/ \E k \in 1..(Len(err_msg) - 1) :
               err_msg[k] = "rate" /\ err_msg[k + 1] = "limit"

\* A plausible slip: the exponent is the attempt index, not attempt + 1.
wait_time_for_OffByOne(e, att) ==
    IF is_rate_limit(e) THEN (att + 1) * 20 ELSE 2 ^ att

\* lines 89-95
wait_time_for(e, att) ==
    IF is_rate_limit(e) THEN (att + 1) * 20 ELSE 2 ^ (att + 1)

OkResult(content) == [kind |-> "return", content |-> content, error |-> <<>>]
ErrResult(e) == [kind |-> "raise", content |-> "", error |-> e]
NoResult == [kind |-> "none", content |-> "", error |-> <<>>]

\* A plausible slip: the last failure falls out of the loop to return "".
exhausted_result_Swallow(e) == OkResult("")

\* lines 97-99: the bare raise re-raises the exception being handled; the
\* except branch of LLMClient.call_with_retry (lines 50-52) re-raises it again
exhausted_result(e) == ErrResult(e)

ProviderChoices == {"groq", "OpenAI", "bogus"}
GroqKeys == {"", "gk1", "gk2"}
OpenAIKeys == {"", "ok1"}
RetrySettingChoices == {0, 2, MaxRetries}
ArgChoices == {NoneArg, IntArg(0), IntArg(1)}
Contents == {"", "text"}

\* no variable of ConfigManager.load set
NoEnv ==
    [LLM_PROVIDER |-> "", API_MODEL_NAME |-> "", GROQ_API_KEY |-> "",
     OPENROUTER_API_KEY |-> "", OPENAI_API_KEY |-> "", GEMINI_API_KEY |-> "",
     DASH_SCOPE_API_KEY |-> "", API_DASHSCOPE_API_KEY |-> "",
     SILICONFLOW_API_KEY |-> "", TOGETHER_API_KEY |-> ""]
EnvChoices ==
    {NoEnv,
     [NoEnv EXCEPT !.GROQ_API_KEY = "ek"],
     [NoEnv EXCEPT !.LLM_PROVIDER = "openai", !.API_MODEL_NAME = "m2"]}

Settings(p, gk, ok, mr) ==
    [llm_provider |-> p, groq_api_key |-> gk, openai_api_key |-> ok,
     dashscope_api_key |-> "", gemini_api_key |-> "", siliconflow_api_key |-> "",
     together_api_key |-> "", openrouter_api_key |-> "",
     model_name |-> "m1", max_retries |-> mr]

\* ConfigManager() and LLMManager() constructed, then LLMClient.call_with_retry
\* entered with some max_retries argument
RetryStart ==
    /\ \E p \in ProviderChoices, gk \in GroqKeys, ok \in OpenAIKeys,
          mr \in RetrySettingChoices :
           settings_file = Settings(p, gk, ok, mr)
    /\ env \in EnvChoices
    /\ cm_settings = load(settings_file, env)
    /\ current_provider = _initialize_provider(NoProvider, cm_settings)
    /\ arg_max_retries \in ArgChoices
    /\ total_retries = 0
    /\ attempt = 0
    /\ wait_time = 0
    /\ last_error = <<>>
    /\ retry_result = NoResult
    /\ retry_pc = "start"
    /\ n_attempts = 0
    /\ n_failures = 0
    /\ attempt_settings = cm_settings
    /\ dispatched_with = NoProvider
    /\ n_writes = 0
    /\ settings_torn = FALSE
    /\ attempt_read = "none"

\* the orchestrator before any call
RetryIdle ==
    /\ settings_file = Settings("groq", "", "", 0)
    /\ env = NoEnv
    /\ cm_settings = settings_file
    /\ current_provider = NoProvider
    /\ arg_max_retries = NoneArg
    /\ total_retries = 0
    /\ attempt = 0
    /\ wait_time = 0
    /\ last_error = <<>>
    /\ retry_result = NoResult
    /\ retry_pc = "idle"
    /\ n_attempts = 0
    /\ n_failures = 0
    /\ attempt_settings = settings_file
    /\ dispatched_with = NoProvider
    /\ n_writes = 0
    /\ settings_torn = FALSE
    /\ attempt_read = "none"

\* api/v1/settings.py update_settings up to line 83: the provider, the keys
\* and the model are to be rewritten (max_retries is not among its fields)
\* and open(settings_file, 'w') truncates settings.json.  The pipeline runs
\* in a worker process: the handler's os.environ and the manager its
\* refresh() acts on are the handler's own.
WriteSettings ==
    /\ retry_pc \in {"start", "attempt", "sleeping"}
    /\ ~settings_torn
    /\ n_writes < MaxWrites
    /\ \E p \in ProviderChoices, gk \in GroqKeys, ok \in OpenAIKeys :
           /\ settings_file' = Settings(p, gk, ok, settings_file.max_retries)
           /\ settings_file' # settings_file
    /\ settings_torn' = TRUE
    /\ n_writes' = n_writes + 1
    /\ UNCHANGED <<cm_settings, current_provider, arg_max_retries, total_retries,
                   attempt, wait_time, last_error, retry_result, retry_pc,
                   n_attempts, n_failures, attempt_settings, dispatched_with,
                   attempt_read, env>>
    /\ UNCHANGED notRetryVars

\* update_settings line 84 and the end of the with block: json.dump has
\* written the whole document and the file is closed
WriteCompletes ==
    /\ settings_torn
    /\ settings_torn' = FALSE
    /\ UNCHANGED <<settings_file, cm_settings, current_provider, arg_max_retries,
                   total_retries, attempt, wait_time, last_error, retry_result,
                   retry_pc, n_attempts, n_failures, attempt_settings,
                   dispatched_with, n_writes, attempt_read, env>>
    /\ UNCHANGED notRetryVars

\* how an attempt's read of settings.json lies to the writes
read_kind == IF settings_torn THEN "racing" ELSE IF n_writes = 0 THEN "before" ELSE "after"

\* LLMClient.call_with_retry line 45 and LLMManager.call_with_retry lines
\* 78-81; with an empty range the loop is skipped and line 104 returns ""
RetryBegin ==
    /\ retry_pc = "start"
    /\ LET retries == PyOr(arg_max_retries, cm_settings.max_retries)
           total == PyOr(IntArg(retries), cm_settings.max_retries)
       IN  /\ total_retries' = total
           /\ IF total >= 1
              THEN retry_pc' = "attempt" /\ retry_result' = retry_result
              ELSE retry_pc' = "returned" /\ retry_result' = OkResult("")
    /\ attempt' = 0
    /\ UNCHANGED <<settings_file, cm_settings, current_provider, arg_max_retries,
                   wait_time, last_error, n_attempts, n_failures, attempt_settings,
                   dispatched_with, n_writes, settings_torn, attempt_read, env>>
    /\ UNCHANGED notRetryVars

\* LLMManager.call lines 61-68 within line 83: refresh, dispatch, and the
\* provider answers
AttemptSucceeds ==
    /\ retry_pc = "attempt"
    /\ cm_settings' = load_or_keep(cm_settings, settings_file, settings_torn, env)
    /\ attempt_read' = read_kind
    /\ current_provider' = _initialize_provider(current_provider, cm_settings')
    /\ current_provider'.kind # "none"
    /\ \E content \in Contents : retry_result' = OkResult(content)
    /\ retry_pc' = "returned"
    /\ n_attempts' = n_attempts + 1
    /\ attempt_settings' = cm_settings'
    /\ dispatched_with' = current_provider'
    /\ UNCHANGED <<settings_file, arg_max_retries, total_retries, attempt,
                   wait_time, last_error, n_failures, n_writes, settings_torn, env>>
    /\ UNCHANGED notRetryVars

\* LLMManager.call raises (no provider: line 64; provider error: lines 69-71)
\* and the except branch of call_with_retry runs (lines 85-101)
AttemptFails ==
    /\ retry_pc = "attempt"
    /\ cm_settings' = load_or_keep(cm_settings, settings_file, settings_torn, env)
    /\ attempt_read' = read_kind
    /\ current_provider' = _initialize_provider(current_provider, cm_settings')
    /\ \E e \in ProviderErrors \cup {ErrNoProvider} :
           /\ (e = ErrNoProvider) <=> (current_provider'.kind = "none")
           /\ last_error' = e
           /\ wait_time' = wait_time_for(e, attempt)
           /\ IF attempt = total_retries - 1
              THEN retry_result' = exhausted_result(e) /\ retry_pc' = (IF retry_result'.kind = "raise" THEN "raised" ELSE "returned")
              ELSE retry_result' = retry_result /\ retry_pc' = "sleeping"
    /\ n_attempts' = n_attempts + 1
    /\ n_failures' = n_failures + 1
    /\ attempt_settings' = cm_settings'
    /\ dispatched_with' = current_provider'
    /\ UNCHANGED <<settings_file, arg_max_retries, total_retries, attempt, n_writes,
                   settings_torn, env>>
    /\ UNCHANGED notRetryVars

\* lines 101-102: time.sleep(wait_time) is over, the loop goes on
Wake ==
    /\ retry_pc = "sleeping"
    /\ attempt' = attempt + 1
    /\ retry_pc' = "attempt"
    /\ UNCHANGED <<settings_file, cm_settings, current_provider, arg_max_retries,
                   total_retries, wait_time, last_error, retry_result,
                   n_attempts, n_failures, attempt_settings, dispatched_with,
                   n_writes, settings_torn, attempt_read, env>>
    /\ UNCHANGED notRetryVars

RetryNext ==
    \/ WriteSettings \/ WriteCompletes
    \/ RetryBegin \/ AttemptSucceeds \/ AttemptFails \/ Wake

(***************************************************************************)
(* OutlineExtractor                                                        *)
(***************************************************************************)
MaxChunks == 3

\* A line of a model response, stripped.  kind "title": the line matches
\* ^\d+\.\s*\*\* and text is line.split('**')[1]; kind "dash": the line starts
\* with '-' and text is line[1:].strip(), of text_len characters; kind
\* "other": any other line.
TitleLine(t) == [kind |-> "title", text |-> t, text_len |-> 1]
DashLine(t, n) == [kind |-> "dash", text |-> t, text_len |-> n]
OtherLine == [kind |-> "other", text |-> "", text_len |-> 0]

NoOutline == [active |-> FALSE, title |-> "", subtopics |-> <<>>, chunk_index |-> 0]

RECURSIVE parse_outline_lines(_, _, _, _)
\* lines 147-169: the loop over the lines, then the last entry is flushed
parse_outline_lines(lines, index, outlines, current_outline) ==
    IF lines = <<>>
    THEN IF current_outline.active
         THEN Append(outlines, [title       |-> current_outline.title,
                                subtopics   |-> current_outline.subtopics,
                                chunk_index |-> current_outline.chunk_index])
         ELSE outlines
    ELSE LET line == Head(lines)
         IN  IF line.kind = "title"
             THEN parse_outline_lines(
                      Tail(lines), index,
                      IF current_outline.active
                      THEN Append(outlines,
                                  [title       |-> current_outline.title,
                                   subtopics   |-> current_outline.subtopics,
                                   chunk_index |-> current_outline.chunk_index])
                      ELSE outlines,
                      [active |-> TRUE, title |-> line.text, subtopics |-> <<>>,
                       chunk_index |-> index])
             ELSE IF line.kind = "dash" /\ current_outline.active
             THEN parse_outline_lines(
                      Tail(lines), index, outlines,
                      IF line.text_len > 0 /\ line.text_len <= 200
                      THEN [current_outline EXCEPT
                               !.subtopics = Append(current_outline.subtopics, line.text)]
                      ELSE current_outline)
             ELSE parse_outline_lines(Tail(lines), index, outlines, current_outline)

\* A plausible slip: current_outline starts as an entry without a title
\* instead of None.
_parse_outline_response_StartsActive(response, index) ==
    parse_outline_lines(response, index, <<>>,
                        [active |-> TRUE, title |-> "", subtopics |-> <<>>,
                         chunk_index |-> index])

\* OutlineExtractor._parse_outline_response
_parse_outline_response(response, index) ==
    parse_outline_lines(response, index, <<>>, NoOutline)

RECURSIVE merge_from_LastWins(_, _)
\* A plausible slip: a later entry replaces the entry stored under its title.
merge_from_LastWins(outlines, unique_outlines) ==
    IF outlines = <<>> THEN unique_outlines
    ELSE merge_from_LastWins(
             Tail(outlines),
             IF \E k \in 1..Len(unique_outlines) :
                    unique_outlines[k].title = Head(outlines).title
             THEN [k \in 1..Len(unique_outlines) |->
                      IF unique_outlines[k].title = Head(outlines).title
                      THEN Head(outlines) ELSE unique_outlines[k]]
             ELSE Append(unique_outlines, Head(outlines)))

RECURSIVE merge_from(_, _)
\* lines 175-179: the loop; unique_outlines is the dict, as the list of its
\* values in insertion order of their keys
merge_from(outlines, unique_outlines) ==
    IF outlines = <<>> THEN unique_outlines
    ELSE merge_from(
             Tail(outlines),
             IF \E k \in 1..Len(unique_outlines) :
                    unique_outlines[k].title = Head(outlines).title
             THEN unique_outlines
             ELSE Append(unique_outlines, Head(outlines)))

\* A plausible slip: nothing is removed.
_merge_outlines_KeepAll(outlines) == outlines

\* OutlineExtractor._merge_outlines: a dict keyed by title, in insertion order
_merge_outlines(outlines) == merge_from(outlines, <<>>)

\* A plausible slip: the failure of one chunk ends the loop.
next_chunk_after_failure_Break(i, n) == n

\* lines 95-97 (except ... continue) and lines 93-94 (empty response): the
\* value of the loop variable for the next iteration, of n chunk files
next_chunk_after_failure(i, n) == i + 1

ResponseLines == {TitleLine("A"), TitleLine("B"), DashLine("s", 5),
                  DashLine("long", 201), OtherLine}

\* the non-empty responses the orchestrated call can return
Responses ==
    {<<l>> : l \in ResponseLines}
    \cup {<<TitleLine(t), l>> : t \in {"A", "B"}, l \in ResponseLines}

CallRaised == [kind |-> "raise", response |-> <<>>]
CallEmpty == [kind |-> "empty", response |-> <<>>]
CallAnswered(r) == [kind |-> "response", response |-> r]

\* The file at srt_path: absent, of size zero, holding no subtitle, or
\* holding subtitles that chunk_srt_data splits into n_chunks chunks.
SrtPath(k, n) == [kind |-> k, n_chunks |-> n]
SrtPaths ==
    {SrtPath(k, 0) : k \in {"missing", "zero_size", "no_subtitles"}}
    \cup {SrtPath("subtitles", n) : n \in 1..MaxChunks}

\* TextProcessor.parse_srt: [] for a missing or empty file (lines 127-129),
\* else the list of the file's subtitles (lines 131-141); n_entries is the
\* length of the list
parse_srt(file) ==
    IF file.kind \in {"missing", "zero_size"}
    THEN [kind |-> "return", n_entries |-> 0]
    ELSE [kind |-> "return", n_entries |-> file.n_chunks]

NotParsed == [kind |-> "none", n_entries |-> 0]

\* line 67: the chunks chunk_srt_data makes of the subtitles of the file, the
\* k-th of them numbered k - 1; its text and its entries are named by k
chunks_of(file) ==
    [k \in 1..file.n_chunks |->
        [chunk_index |-> k - 1, text |-> k, srt_entries |-> <<k>>]]

\* the file names chunk_{chunk_index} used for the chunks of a list
KeysOf(chunk_list) == {chunk_list[k].chunk_index : k \in 1..Len(chunk_list)}

\* the chunk of the list written last under a key
LastWith(chunk_list, key) ==
    chunk_list[CHOOSE k \in 1..Len(chunk_list) :
                   /\ chunk_list[k].chunk_index = key
                   /\ \A j \in (k + 1)..Len(chunk_list) :
                          chunk_list[j].chunk_index # key]

\* _save_chunks_to_files lines 108-114: chunk_{chunk_index}.txt holds the text
text_files_of(chunk_list) ==
    [key \in KeysOf(chunk_list) |-> LastWith(chunk_list, key).text]

\* _save_chunks_to_files lines 107-118: the paths returned, one per chunk in
\* the order of the list, each named by the chunk's index
_save_chunks_to_files(chunk_list) ==
    [k \in 1..Len(chunk_list) |-> chunk_list[k].chunk_index]

\* A plausible slip: the subtitle files are numbered by position, from one.
_save_srt_chunks_ByPosition(chunk_list) ==
    [key \in 1..Len(chunk_list) |-> chunk_list[key].srt_entries]

\* _save_srt_chunks: chunk_{chunk_index}.json holds the chunk's entries
_save_srt_chunks(chunk_list) ==
    [key \in KeysOf(chunk_list) |-> LastWith(chunk_list, key).srt_entries]
NoOutlineFile == [exists |-> FALSE, content |-> <<>>]

\* run_step1_outline called on some subtitle file (lines 208-212)
OutlineStart ==
    /\ srt_file \in SrtPaths
    /\ parse_srt_result = NotParsed
    /\ outline_file = NoOutlineFile
    /\ chunk_files = <<>>
    /\ chunks_dir = <<>>
    /\ srt_chunks_dir = <<>>
    /\ outline_i = 0
    /\ all_outlines = <<>>
    /\ final_outlines = <<>>
    /\ outline_pc = "start"
    /\ call_log = <<>>
    /\ outcomes = <<>>

\* the extractor before any run
OutlineIdle ==
    /\ srt_file = SrtPath("missing", 0)
    /\ parse_srt_result = NotParsed
    /\ outline_file = NoOutlineFile
    /\ chunk_files = <<>>
    /\ chunks_dir = <<>>
    /\ srt_chunks_dir = <<>>
    /\ outline_i = 0
    /\ all_outlines = <<>>
    /\ final_outlines = <<>>
    /\ outline_pc = "idle"
    /\ call_log = <<>>
    /\ outcomes = <<>>

\* lines 56-61: parse_srt returns no entry; extract_outline returns []
OutlineNoSubtitles ==
    /\ outline_pc = "start"
    /\ parse_srt_result' = parse_srt(srt_file)
    /\ parse_srt_result'.kind = "return" /\ parse_srt_result'.n_entries = 0
    /\ final_outlines' = <<>>
    /\ outline_pc' = "done"
    /\ UNCHANGED <<chunks_dir, srt_chunks_dir, chunk_files, outline_i, all_outlines, call_log, outcomes,
                   srt_file, outline_file>>
    /\ UNCHANGED notOutlineVars

\* lines 56-74: the subtitles are parsed and chunked, the chunk files
\* written; chunk file k holds the chunk of index k
OutlinePrepare ==
    /\ outline_pc = "start"
    /\ parse_srt_result' = parse_srt(srt_file)
    /\ parse_srt_result'.kind = "return" /\ parse_srt_result'.n_entries > 0
    /\ LET chunks_1 == chunks_of(srt_file)
       IN  /\ chunk_files' = _save_chunks_to_files(chunks_1)
           /\ chunks_dir' = text_files_of(chunks_1)
           /\ srt_chunks_dir' = _save_srt_chunks(chunks_1)
    /\ outline_pc' = "loop"
    /\ UNCHANGED <<outline_i, all_outlines, final_outlines, call_log, outcomes,
                   srt_file, outline_file>>
    /\ UNCHANGED notOutlineVars

\* run_step1_outline lines 214-219: the outlines returned by extract_outline
\* are saved to step1_outline.json and returned
OutlineSave ==
    /\ outline_pc = "done"
    /\ outline_file' = [exists |-> TRUE, content |-> final_outlines]
    /\ outline_pc' = "saved"
    /\ UNCHANGED <<chunks_dir, srt_chunks_dir, chunk_files, outline_i, all_outlines, final_outlines, call_log,
                   outcomes, srt_file, parse_srt_result>>
    /\ UNCHANGED notOutlineVars

\* lines 77-97, call_with_retry raises: logged, continue
OutlineCallRaises ==
    /\ outline_pc = "loop"
    /\ outline_i < Len(chunk_files)
    /\ call_log' = Append(call_log, outline_i)
    /\ outcomes' = Append(outcomes, CallRaised)
    /\ outline_i' = next_chunk_after_failure(outline_i, Len(chunk_files))
    /\ UNCHANGED <<chunks_dir, srt_chunks_dir, chunk_files, all_outlines, final_outlines, outline_pc, srt_file,
                   parse_srt_result, outline_file>>
    /\ UNCHANGED notOutlineVars

\* lines 77-94, call_with_retry returns "": a warning
OutlineCallEmpty ==
    /\ outline_pc = "loop"
    /\ outline_i < Len(chunk_files)
    /\ call_log' = Append(call_log, outline_i)
    /\ outcomes' = Append(outcomes, CallEmpty)
    /\ outline_i' = next_chunk_after_failure(outline_i, Len(chunk_files))
    /\ UNCHANGED <<chunks_dir, srt_chunks_dir, chunk_files, all_outlines, final_outlines, outline_pc, srt_file,
                   parse_srt_result, outline_file>>
    /\ UNCHANGED notOutlineVars

\* lines 77-92, call_with_retry returns a response: parsed with index i
OutlineCallAnswers ==
    /\ outline_pc = "loop"
    /\ outline_i < Len(chunk_files)
    /\ \E r \in Responses :
           /\ outcomes' = Append(outcomes, CallAnswered(r))
           /\ all_outlines' = all_outlines \o _parse_outline_response(r, outline_i)
    /\ call_log' = Append(call_log, outline_i)
    /\ outline_i' = outline_i + 1
    /\ UNCHANGED <<chunks_dir, srt_chunks_dir, chunk_files, final_outlines, outline_pc, srt_file,
                   parse_srt_result, outline_file>>
    /\ UNCHANGED notOutlineVars

\* lines 99-103: merge and return
OutlineFinish ==
    /\ outline_pc = "loop"
    /\ outline_i >= Len(chunk_files)
    /\ final_outlines' = _merge_outlines(all_outlines)
    /\ outline_pc' = "done"
    /\ UNCHANGED <<chunks_dir, srt_chunks_dir, chunk_files, outline_i, all_outlines, call_log, outcomes,
                   srt_file, parse_srt_result, outline_file>>
    /\ UNCHANGED notOutlineVars

OutlineNext ==
    \/ OutlineNoSubtitles \/ OutlinePrepare
    \/ OutlineCallRaises \/ OutlineCallEmpty \/ OutlineCallAnswers \/ OutlineFinish
    \/ OutlineSave

(***************************************************************************)
(* Claims about the call orchestrator                                      *)
(***************************************************************************)
\* the error messages that contain "429" or "rate limit", whatever the case
RateLimitErrors == {Err429, ErrRateLimit}

\* C6: the wait after failed attempt k is (k+1)*20 s when that attempt's error
\* is a rate-limit error and 2^(k+1) s otherwise (20, 40, 60 and 2, 4, 8 on
\* attempts 0, 1, 2), whatever happened on the earlier attempts.
C6_BackoffSchedule ==
    retry_pc = "sleeping" =>
        /\ wait_time = IF last_error \in RateLimitErrors
                       THEN (attempt + 1) * 20
                       ELSE 2 ^ (attempt + 1)
        /\ (attempt = 0 => wait_time \in {20, 2})
        /\ (attempt = 1 => wait_time \in {40, 4})
        /\ (attempt = 2 => wait_time \in {60, 8})

\* C6 witness: a rate-limit failure on attempt 2 waits 60 s.
C6_Witness ==
    /\ retry_pc = "sleeping"
    /\ attempt = 2
    /\ last_error = ErrRateLimit
    /\ wait_time = 60

\* the attempt budget of the call: the argument, or the setting
AttemptBudget == PyOr(arg_max_retries, settings_file.max_retries)

\* C7: when every attempt of the call has failed, call_with_retry raises the
\* error of the final attempt, unchanged, after exactly max_retries attempts;
\* it returns no value.
C7_ExhaustedRaisesLast ==
    (retry_pc \in {"returned", "raised"} /\ n_attempts >= 1 /\ n_failures = n_attempts) =>
        /\ retry_pc = "raised"
        /\ retry_result = ErrResult(last_error)
        /\ n_attempts = AttemptBudget

\* C7 witness: a budget of MaxRetries attempts, all failed, the last with a
\* time-out, and the time-out was raised.
C7_Witness ==
    /\ retry_pc = "raised"
    /\ n_attempts = MaxRetries
    /\ n_failures = MaxRetries
    /\ retry_result = ErrResult(ErrTimeout)

\* the provider the settings s configure
ProviderOf(s) ==
    LET cfg == get_api_config(s)
    IN  [kind |-> cfg.provider, api_key |-> cfg.api_key,
         model_name |-> cfg.model_name, base_url |-> cfg.base_url]

\* C8: every dispatch of an attempt goes to the provider configured by the
\* settings as they were when that attempt started.
C8_DispatchUsesAttemptSettings ==
    dispatched_with.kind # "none" => dispatched_with = ProviderOf(attempt_settings)

\* C9: after a refresh the current provider, when there is one, is the
\* provider of the settings just loaded, never the one configured before.
C9_ProviderFromLoadedSettings ==
    current_provider.kind # "none" => current_provider = ProviderOf(cm_settings)

\* C36: whatever way a write of settings.json is interleaved with the
\* attempts of a call, an attempt that starts after the write has completed
\* re-reads the settings and dispatches to the provider of the configuration
\* as it is fully written in the file.  (An attempt whose read races with the
\* write keeps the settings loaded before: line 114 catches the parse error.)
C36_AttemptAfterWriteUsesWritten ==
    (attempt_read = "after" /\ dispatched_with.kind # "none") =>
        dispatched_with = ProviderOf(attempt_settings)

\* C33: call_with_retry returns a value only after an attempt has succeeded,
\* the last one it made, whatever the max_retries argument and the
\* max_retries setting are (0 included); it never returns without having
\* attempted the provider.
C33_ReturnsOnlyAfterSuccess ==
    retry_pc = "returned" =>
        /\ n_attempts >= 1
        /\ n_failures = n_attempts - 1

\* C34: with an attempt budget of at least 1 the call goes from attempt to
\* attempt: before attempt k (counted from 0) there were k failed attempts
\* and k waits; a failed attempt other than the last of the budget is
\* followed by one wait; the first success returns at once, after k + 1
\* attempts and k waits; the call raises after as many failed attempts as
\* the budget has, with one wait less.  The waits are counted by attempt,
\* which only the end of a wait increments.
C34_PerCallStateMachine ==
    total_retries >= 1 =>
        /\ retry_pc = "attempt" =>
               /\ attempt < total_retries
               /\ n_attempts = attempt /\ n_failures = attempt
        /\ retry_pc = "sleeping" =>
               /\ attempt < total_retries - 1
               /\ n_attempts = attempt + 1 /\ n_failures = attempt + 1
        /\ retry_pc = "returned" =>
               /\ attempt < total_retries
               /\ n_attempts = attempt + 1 /\ n_failures = attempt
        /\ retry_pc = "raised" =>
               /\ attempt = total_retries - 1
               /\ n_attempts = total_retries /\ n_failures = total_retries

\* C34 witness: a call that succeeded on attempt 2, after three attempts and
\* two waits, with a budget that allowed more.
C34_Witness ==
    /\ retry_pc = "returned"
    /\ total_retries = MaxRetries
    /\ attempt = 2
    /\ n_attempts = 3
    /\ n_failures = 2

\* C19: an attempt made while the configured provider kind is none of the
\* enumerated kinds ends the call at once: the error is raised to the caller
\* on that attempt, and the loop never sleeps to try again.
C19_UnknownKindIsFatal ==
    (/\ retry_pc \in {"sleeping", "raised"}
     /\ get_api_config(attempt_settings).provider \notin ProviderTypes)
    => /\ retry_pc = "raised"
       /\ n_attempts = 1

(***************************************************************************)
(* Claims about extract_outline                                            *)
(***************************************************************************)
RECURSIVE EntriesOfAnswered(_, _)
\* the entries parsed from the chunks that answered, chunk k-1 at position k
EntriesOfAnswered(outs, k) ==
    IF k > Len(outs) THEN <<>>
    ELSE (IF outs[k].kind = "response"
          THEN _parse_outline_response(outs[k].response, k - 1)
          ELSE <<>>)
         \o EntriesOfAnswered(outs, k + 1)

\* C10: a chunk whose call raises or returns an empty response contributes
\* no entry and does not stop the run: every chunk is attempted exactly once,
\* in order, and the entries merged into the result are those parsed from
\* every chunk that answered.
C10_FailedChunksSkipped ==
    outline_pc = "done" =>
        /\ call_log = [k \in 1..Len(chunk_files) |-> k - 1]
        /\ all_outlines = EntriesOfAnswered(outcomes, 1)
        /\ \A k \in 1..Len(all_outlines) :
               outcomes[all_outlines[k].chunk_index + 1].kind = "response"
        /\ \A k \in 1..Len(all_outlines) :
               \E j \in 1..Len(final_outlines) :
                   final_outlines[j].title = all_outlines[k].title

\* C10 witness: a run of three chunks, one raising, one answering with an
\* empty response, the last answering with entries that are returned.
C10_Witness ==
    /\ outline_pc = "done"
    /\ Len(chunk_files) = 3
    /\ outcomes[1].kind = "raise"
    /\ outcomes[2].kind = "empty"
    /\ outcomes[3].kind = "response"
    /\ final_outlines # <<>>
    /\ final_outlines[1].chunk_index = 2

\* C29: once a provider call has been made, the text file and the
\* subtitle-entry file of every chunk are on disk under the chunk's index,
\* and every outline entry parsed so far carries the index i of the chunk
\* file it was produced from: file i holds the text of the chunk numbered i,
\* whose entries are stored under the key i.
C29_FilesKeyedBeforeCalls ==
    call_log # <<>> =>
        LET chunks_1 == chunks_of(srt_file)
        IN  /\ \A k \in 1..Len(chunks_1) :
                   /\ chunks_1[k].chunk_index \in DOMAIN chunks_dir
                   /\ chunks_dir[chunks_1[k].chunk_index] = chunks_1[k].text
                   /\ chunks_1[k].chunk_index \in DOMAIN srt_chunks_dir
                   /\ srt_chunks_dir[chunks_1[k].chunk_index]
                          = chunks_1[k].srt_entries
            /\ \A e \in 1..Len(all_outlines) :
                   LET i == all_outlines[e].chunk_index
                   IN  /\ i + 1 \in 1..Len(chunk_files)
                       /\ chunk_files[i + 1] = i
                       /\ \E k \in 1..Len(chunks_1) :
                              /\ chunks_1[k].chunk_index = i
                              /\ chunks_dir[chunk_files[i + 1]] = chunks_1[k].text
                              /\ i \in DOMAIN srt_chunks_dir
                              /\ srt_chunks_dir[i] = chunks_1[k].srt_entries

\* C29 witness: the second of two chunk files was answered with an entry,
\* which carries index 1, and both files of chunk 1 are on disk.
C29_Witness ==
    /\ Len(chunk_files) = 2
    /\ Len(call_log) = 2
    /\ \E e \in 1..Len(all_outlines) : all_outlines[e].chunk_index = 1
    /\ 1 \in DOMAIN chunks_dir /\ 1 \in DOMAIN srt_chunks_dir
    /\ srt_chunks_dir[1] = chunks_of(srt_file)[2].srt_entries

\* C18: when the subtitle file is missing or has size zero, parse_srt raises
\* instead of returning, no orchestrated call is made, and the outline stage
\* neither returns outlines nor writes step1_outline.json.
C18_EmptySourceIsFatal ==
    (srt_file.kind \in {"missing", "zero_size"} /\ outline_pc \in {"done", "saved"})
    => /\ parse_srt_result.kind = "raise"
       /\ call_log = <<>>
       /\ outline_pc # "saved"
       /\ ~outline_file.exists

(***************************************************************************)
(* TimelineExtractor.extract_timeline                                      *)
(***************************************************************************)
MaxOutlines == 2
MaxRuns == 2

\* the chunk indices that occur
ChunkIds == {0, 1}

\* An outline entry of step 1; has_index is FALSE when the entry has no
\* chunk_index (outline.get('chunk_index') is None).
Outline(t, has, c) == [title |-> t, has_index |-> has, chunk_index |-> c]
OutlineChoices ==
    {Outline("A", TRUE, c) : c \in ChunkIds}
    \cup {Outline("B", TRUE, 1), Outline("A", FALSE, 0)}
OutlineLists == UNION {[1..n -> OutlineChoices] : n \in 0..MaxOutlines}

\* A plausible slip: a list of groups to which every outline adds a group of
\* its own, instead of a dict keyed by chunk_index.
group_from_NoMerge(outlines, groups) ==
    LET with_index == SelectSeq(outlines, LAMBDA o : o.has_index)
    IN  groups \o [k \in 1..Len(with_index) |->
                      [chunk_index |-> with_index[k].chunk_index,
                       outlines |-> <<with_index[k]>>]]

RECURSIVE group_from(_, _)
\* lines 64-70: outlines_by_chunk, a dict in insertion order of its keys
group_from(outlines, groups) ==
    IF outlines = <<>> THEN groups
    ELSE LET o == Head(outlines)
             known == {k \in 1..Len(groups) : groups[k].chunk_index = o.chunk_index}
         IN  IF ~o.has_index THEN group_from(Tail(outlines), groups)
             ELSE IF known # {}
             THEN group_from(Tail(outlines),
                             [groups EXCEPT ![CHOOSE k \in known : TRUE].outlines =
                                                Append(@, o)])
             ELSE group_from(Tail(outlines),
                             Append(groups, [chunk_index |-> o.chunk_index,
                                             outlines |-> <<o>>]))

\* step1_srt_chunks/chunk_N.json: absent, holding [], unreadable, or holding
\* entries from start_time (of the first) to end_time (of the last)
SrtFile(k, st, en) == [kind |-> k, start_time |-> st, end_time |-> en]
NoSrtFile == SrtFile("missing", Time(0, 0, 0, 0), Time(0, 0, 0, 0))
SrtData(c) == IF c = 0 THEN SrtFile("data", V0, V3) ELSE SrtFile("data", V3, V5)

\* a file of step2_llm_raw_output: chunk_N.txt (attempt = -1) or
\* chunk_N_attempt_K.txt
RawFile(c, k) == [chunk |-> c, attempt |-> k]

\* step2_timeline_chunks/chunk_N.json
NoTimelineFile == [exists |-> FALSE, items |-> <<>>]
TimelineFile(items) == [exists |-> TRUE, items |-> items]

\* the items an earlier run left in chunk_N.json
StaleItems(c) ==
    <<attach_chunk_index(Item(ItemKeys, "Old", V1, V2), c)>>

\* What the directories hold for chunk c when the run starts.
DiskOfChunk(s, r, t) == [srt |-> s, raw |-> r, timeline |-> t]
DiskChoices(c) ==
    {DiskOfChunk(SrtData(c), {}, NoTimelineFile),
     DiskOfChunk(SrtData(c), {}, TimelineFile(StaleItems(c))),
     DiskOfChunk(SrtData(c), {RawFile(c, -1)}, NoTimelineFile),
     DiskOfChunk(NoSrtFile, {}, NoTimelineFile),
     DiskOfChunk([NoSrtFile EXCEPT !.kind = "empty"], {}, NoTimelineFile),
     DiskOfChunk([NoSrtFile EXCEPT !.kind = "corrupt"], {}, NoTimelineFile)}

RECURSIVE validate_from(_, _, _, _, _)
\* lines 230-270 and 272-284: the loop over the parsed list; an element on
\* which line 231 raises makes the function return []
validate_from(items, acc, cstart, cend, index) ==
    IF items = <<>> THEN acc
    ELSE LET timeline_item == Head(items)
         IN  IF membership_raises(timeline_item) THEN <<>>
             ELSE validate_from(
                      Tail(items),
                      IF item_accepted(timeline_item)
                      THEN Append(acc, attach_chunk_index(
                                           adjust_time_range(timeline_item, cstart, cend),
                                           index))
                      ELSE acc,
                      cstart, cend, index)

\* TimelineExtractor._parse_and_validate_response, as a function of what
\* parse_json_response makes of the response
_parse_and_validate_response(pr, cstart, cend, index) ==
    IF pr.kind = "list" THEN validate_from(pr.items, <<>>, cstart, cend, index)
    ELSE <<>>

\* the error types of the debug files _parse_and_validate_response saves
debug_types_of(pr) ==
    {"original_response"}
    \cup (IF pr.kind = "raise" THEN {"parse_error"} ELSE {})
    \cup (IF pr.kind = "scalar" THEN {"invalid_structure"} ELSE {})
    \cup (IF pr.kind = "dict" THEN {"not_list"} ELSE {})
    \cup (IF pr.kind = "list"
             /\ \E k \in 1..Len(pr.items) :
                    /\ membership_raises(pr.items[k])
                    /\ \A j \in 1..(k - 1) : ~membership_raises(pr.items[j])
          THEN {"parse_error"} ELSE {})

ListResponse(items) == [kind |-> "list", items |-> items]
\* the non-empty responses the timeline call can return, by their parse
TlResponses ==
    {[kind |-> "raise", items |-> <<>>],
     [kind |-> "dict", items |-> <<>>],
     ListResponse(<<>>),
     ListResponse(<<Item(ItemKeys, "A", V2, V3)>>),
     ListResponse(<<Item(ItemKeys, "X", V4, V5), Item(ItemKeys, "B", V1, V2)>>),
     ListResponse(<<Item(ItemKeys, "A", DotTime, V3)>>),
     ListResponse(<<Item(ItemKeys, "A", V2, V3), NumberElement>>),
     ListResponse(<<Item(ItemKeys, "A", NewlineTime, V3)>>)}

RECURSIVE insert_by_start(_, _)
\* x goes after every element whose key is not greater than its own
insert_by_start(x, sorted) ==
    IF sorted = <<>> THEN <<x>>
    ELSE IF time_to_seconds(Head(sorted).start_time) <= time_to_seconds(x.start_time)
    THEN <<Head(sorted)>> \o insert_by_start(x, Tail(sorted))
    ELSE <<x>> \o sorted

RECURSIVE sort_from(_, _)
sort_from(items, sorted) ==
    IF items = <<>> THEN sorted
    ELSE sort_from(Tail(items), insert_by_start(Head(items), sorted))

\* A plausible slip: the assembled list is left in file order.
sort_by_start_time_Unsorted(items) == items

\* line 194: list.sort(key=time_to_seconds(x['start_time'])), a stable sort
sort_by_start_time(items) == sort_from(items, <<>>)

DecimalDigits == <<"0", "1", "2", "3", "4", "5", "6", "7", "8", "9">>
RECURSIVE Str(_)
\* str(n) of a natural number: its decimal digits
Str(n) ==
    IF n < 10 THEN <<DecimalDigits[n + 1]>>
    ELSE Str(n \div 10) \o <<DecimalDigits[(n % 10) + 1]>>

\* line 200: timeline_item['id'] = str(i + 1), i the 0-based position
with_id(timeline_item, i) ==
    [json        |-> timeline_item.json,
     keys        |-> timeline_item.keys \cup {"id"},
     outline     |-> timeline_item.outline,
     start_time  |-> timeline_item.start_time,
     end_time    |-> timeline_item.end_time,
     chunk_index |-> timeline_item.chunk_index,
     id          |-> Str(i + 1)]

\* lines 199-200
assign_ids(items) == [k \in 1..Len(items) |-> with_id(items[k], k - 1)]

\* A plausible slip: only the result file of chunk 0 is read.
load_chunk_files_FirstOnly(files, ids) ==
    IF 0 \in ids /\ files[0].exists THEN files[0].items ELSE <<>>

RECURSIVE load_chunk_files(_, _)
\* lines 181-186: the result files in sorted order of their names (the order
\* of N for the one-digit indices drawn), their lists concatenated
load_chunk_files(files, ids) ==
    IF ids = {} THEN <<>>
    ELSE LET c == CHOOSE x \in ids : \A y \in ids : x <= y
         IN  (IF files[c].exists THEN files[c].items ELSE <<>>)
             \o load_chunk_files(files, ids \ {c})

\* lines 179-206
assemble(files) ==
    LET all_timeline_data == load_chunk_files(files, ChunkIds)
    IN  IF all_timeline_data # <<>>
        THEN assign_ids(sort_by_start_time(all_timeline_data))
        ELSE all_timeline_data

\* line 126
max_parse_retries == 2

NoItems == [is_none |-> TRUE, items |-> <<>>]
SomeItems(items) == [is_none |-> FALSE, items |-> items]

\* something the run did for chunk c: "call" (line 130), "write_raw" (lines
\* 137-139), "write_result" (lines 151-152), "write_debug" (_save_debug_response)
Event(c, what) == [chunk |-> c, what |-> what]

\* A plausible slip: the cache is looked up under the name of the first
\* attempt's file.
llm_cache_path_AttemptFile(c) == RawFile(c, 0)

\* line 99: llm_raw_output_dir / f"chunk_{chunk_index}.txt"
llm_cache_path(c) == RawFile(c, -1)

\* line 137: llm_raw_output_dir / f"chunk_{chunk_index}_attempt_{retry_count}.txt"
cache_file(c, k) == RawFile(c, k)

\* extract_timeline called with some outlines on some state of the
\* metadata directory
TimelineStart ==
    /\ tl_outlines \in OutlineLists
    /\ srt_dir_exists \in BOOLEAN
    /\ \E disk \in [ChunkIds -> UNION {DiskChoices(c) : c \in ChunkIds}] :
           /\ \A c \in ChunkIds : disk[c] \in DiskChoices(c)
           /\ ~srt_dir_exists => \A c \in ChunkIds : disk[c].srt.kind = "missing"
           /\ srt_chunk_files = [c \in ChunkIds |-> disk[c].srt]
           /\ llm_raw_files = UNION {disk[c].raw : c \in ChunkIds}
           /\ timeline_files = [c \in ChunkIds |-> disk[c].timeline]
    /\ tl_debug_files = {}
    /\ tl_groups = <<>>
    /\ tl_g = 1
    /\ retry_count = 0
    /\ parsed_items = NoItems
    /\ tl_pc = "start"
    /\ tl_result = <<>>
    /\ tl_calls = [c \in ChunkIds |-> 0]
    /\ tl_written = {}
    /\ tl_cache_used = {}
    /\ tl_run = 1
    /\ tl_answered = {}
    /\ tl_events = <<>>

\* the extractor before any run
TimelineIdle ==
    /\ tl_outlines = <<>>
    /\ srt_dir_exists = FALSE
    /\ srt_chunk_files = [c \in ChunkIds |-> NoSrtFile]
    /\ llm_raw_files = {}
    /\ timeline_files = [c \in ChunkIds |-> NoTimelineFile]
    /\ tl_debug_files = {}
    /\ tl_groups = <<>>
    /\ tl_g = 1
    /\ retry_count = 0
    /\ parsed_items = NoItems
    /\ tl_pc = "idle"
    /\ tl_result = <<>>
    /\ tl_calls = [c \in ChunkIds |-> 0]
    /\ tl_written = {}
    /\ tl_cache_used = {}
    /\ tl_run = 1
    /\ tl_answered = {}
    /\ tl_events = <<>>

\* lines 51-57: nothing to do
TimelineReturnEarly ==
    /\ tl_pc = "start"
    /\ tl_outlines = <<>> \/ ~srt_dir_exists
    /\ tl_result' = <<>>
    /\ tl_pc' = "done"
    /\ UNCHANGED <<tl_outlines, srt_dir_exists, srt_chunk_files, llm_raw_files,
                   timeline_files, tl_debug_files, tl_groups, tl_g, retry_count,
                   parsed_items, tl_calls, tl_written, tl_cache_used>>
    /\ UNCHANGED <<tl_run, tl_answered, tl_events>>
    /\ UNCHANGED notTimelineVars

\* lines 59-72: the directories are made, the outlines grouped
TimelineBegin ==
    /\ tl_pc = "start"
    /\ tl_outlines # <<>> /\ srt_dir_exists
    /\ tl_groups' = group_from(tl_outlines, <<>>)
    /\ tl_g' = 1
    /\ tl_pc' = "group"
    /\ UNCHANGED <<tl_outlines, srt_dir_exists, srt_chunk_files, llm_raw_files,
                   timeline_files, tl_debug_files, retry_count, parsed_items,
                   tl_result, tl_calls, tl_written, tl_cache_used>>
    /\ UNCHANGED <<tl_run, tl_answered, tl_events>>
    /\ UNCHANGED notTimelineVars

\* the chunk index of the group the for loop of line 74 is at
current_chunk == tl_groups[tl_g].chunk_index

\* lines 83-92: no subtitle file for the chunk, or an empty one: continue
TimelineSkipGroup ==
    /\ tl_pc = "group"
    /\ tl_g <= Len(tl_groups)
    /\ srt_chunk_files[current_chunk].kind \in {"missing", "empty"}
    /\ tl_g' = tl_g + 1
    /\ UNCHANGED <<tl_outlines, srt_dir_exists, srt_chunk_files, llm_raw_files,
                   timeline_files, tl_debug_files, tl_groups, retry_count,
                   parsed_items, tl_pc, tl_result, tl_calls, tl_written,
                   tl_cache_used>>
    /\ UNCHANGED <<tl_run, tl_answered, tl_events>>
    /\ UNCHANGED notTimelineVars

\* lines 87-88 raise, lines 175-177: logged, continue
TimelineGroupRaises ==
    /\ tl_pc = "group"
    /\ tl_g <= Len(tl_groups)
    /\ srt_chunk_files[current_chunk].kind = "corrupt"
    /\ tl_g' = tl_g + 1
    /\ UNCHANGED <<tl_outlines, srt_dir_exists, srt_chunk_files, llm_raw_files,
                   timeline_files, tl_debug_files, tl_groups, retry_count,
                   parsed_items, tl_pc, tl_result, tl_calls, tl_written,
                   tl_cache_used>>
    /\ UNCHANGED <<tl_run, tl_answered, tl_events>>
    /\ UNCHANGED notTimelineVars

\* lines 101-104: chunk_N.txt exists and is read into raw_response; the try
\* block ends there and the loop goes to the next group
TimelineUseCache ==
    /\ tl_pc = "group"
    /\ tl_g <= Len(tl_groups)
    /\ srt_chunk_files[current_chunk].kind = "data"
    /\ llm_cache_path(current_chunk) \in llm_raw_files
    /\ tl_cache_used' = tl_cache_used \cup {current_chunk}
    /\ tl_g' = tl_g + 1
    /\ UNCHANGED <<tl_outlines, srt_dir_exists, srt_chunk_files, llm_raw_files,
                   timeline_files, tl_debug_files, tl_groups, retry_count,
                   parsed_items, tl_pc, tl_result, tl_calls, tl_written>>
    /\ UNCHANGED <<tl_run, tl_answered, tl_events>>
    /\ UNCHANGED notTimelineVars

\* lines 105-128: no chunk_N.txt: the input is built and the retry loop entered
TimelineEnterRetry ==
    /\ tl_pc = "group"
    /\ tl_g <= Len(tl_groups)
    /\ srt_chunk_files[current_chunk].kind = "data"
    /\ llm_cache_path(current_chunk) \notin llm_raw_files
    /\ parsed_items' = NoItems
    /\ retry_count' = 0
    /\ tl_pc' = "attempt"
    /\ UNCHANGED <<tl_outlines, srt_dir_exists, srt_chunk_files, llm_raw_files,
                   timeline_files, tl_debug_files, tl_groups, tl_g, tl_result,
                   tl_calls, tl_written, tl_cache_used>>
    /\ UNCHANGED <<tl_run, tl_answered, tl_events>>
    /\ UNCHANGED notTimelineVars

\* line 130 raises, lines 165-169: logged, a debug file on the last round,
\* continue; after the last round lines 171-173 skip the chunk
TimelineCallRaises ==
    /\ tl_pc = "attempt"
    /\ tl_calls' = [tl_calls EXCEPT ![current_chunk] = @ + 1]
    /\ IF retry_count = max_parse_retries
       THEN /\ tl_debug_files' =
                   tl_debug_files \cup {<<current_chunk, "parse_exception">>}
            /\ tl_events' = tl_events \o <<Event(current_chunk, "call"),
                                           Event(current_chunk, "write_debug")>>
            /\ tl_g' = tl_g + 1
            /\ tl_pc' = "group"
            /\ retry_count' = retry_count
       ELSE /\ retry_count' = retry_count + 1
            /\ tl_events' = Append(tl_events, Event(current_chunk, "call"))
            /\ UNCHANGED <<tl_debug_files, tl_g, tl_pc>>
    /\ UNCHANGED <<tl_outlines, srt_dir_exists, srt_chunk_files, llm_raw_files,
                   timeline_files, tl_groups, parsed_items, tl_result,
                   tl_written, tl_cache_used>>
    /\ UNCHANGED <<tl_run, tl_answered>>
    /\ UNCHANGED notTimelineVars

\* lines 130-134: an empty response ends the retry loop; lines 171-173 skip
\* the chunk
TimelineCallEmpty ==
    /\ tl_pc = "attempt"
    /\ tl_calls' = [tl_calls EXCEPT ![current_chunk] = @ + 1]
    /\ tl_events' = Append(tl_events, Event(current_chunk, "call"))
    /\ tl_g' = tl_g + 1
    /\ tl_pc' = "group"
    /\ UNCHANGED <<tl_outlines, srt_dir_exists, srt_chunk_files, llm_raw_files,
                   timeline_files, tl_debug_files, tl_groups, retry_count,
                   parsed_items, tl_result, tl_written, tl_cache_used>>
    /\ UNCHANGED <<tl_run, tl_answered>>
    /\ UNCHANGED notTimelineVars

\* lines 130-163: a response is returned, saved as chunk_N_attempt_K.txt,
\* parsed and validated; a non-empty list is written to chunk_N.json and ends
\* the loop, an empty one leads to the next round or, on the last round, to
\* a debug file and lines 171-173
TimelineCallAnswers ==
    /\ tl_pc = "attempt"
    /\ tl_calls' = [tl_calls EXCEPT ![current_chunk] = @ + 1]
    /\ llm_raw_files' = llm_raw_files \cup {cache_file(current_chunk, retry_count)}
    /\ \E pr \in TlResponses :
           LET f == srt_chunk_files[current_chunk]
               items == _parse_and_validate_response(pr, f.start_time, f.end_time,
                                                     current_chunk)
               saved == {<<current_chunk, t>> : t \in debug_types_of(pr)}
           IN  /\ parsed_items' = SomeItems(items)
               /\ tl_events' =
                      tl_events
                        \o <<Event(current_chunk, "call"),
                             Event(current_chunk, "write_raw"),
                             Event(current_chunk, "write_debug")>>
                        \o (IF items # <<>>
                            THEN <<Event(current_chunk, "write_result")>>
                            ELSE IF retry_count < max_parse_retries THEN <<>>
                            ELSE <<Event(current_chunk, "write_debug")>>)
               /\ IF items # <<>>
                  THEN /\ timeline_files' =
                              [timeline_files EXCEPT ![current_chunk] = TimelineFile(items)]
                       /\ tl_written' = tl_written \cup {current_chunk}
                       /\ tl_debug_files' = tl_debug_files \cup saved
                       /\ tl_g' = tl_g + 1
                       /\ tl_pc' = "group"
                       /\ retry_count' = retry_count
                  ELSE IF retry_count < max_parse_retries
                  THEN /\ retry_count' = retry_count + 1
                       /\ tl_debug_files' = tl_debug_files \cup saved
                       /\ UNCHANGED <<timeline_files, tl_written, tl_g, tl_pc>>
                  ELSE /\ tl_debug_files' =
                              tl_debug_files \cup saved
                                  \cup {<<current_chunk, "final_parse_failure">>}
                       /\ tl_g' = tl_g + 1
                       /\ tl_pc' = "group"
                       /\ UNCHANGED <<timeline_files, tl_written, retry_count>>
    /\ UNCHANGED <<tl_outlines, srt_dir_exists, srt_chunk_files, tl_groups,
                   tl_result, tl_cache_used>>
    /\ UNCHANGED <<tl_run, tl_answered>>
    /\ UNCHANGED notTimelineVars

\* lines 179-206: every group was gone through; the result files are read,
\* the items sorted and numbered, the list returned
TimelineAssemble ==
    /\ tl_pc = "group"
    /\ tl_g > Len(tl_groups)
    /\ tl_result' = assemble(timeline_files)
    /\ tl_pc' = "done"
    /\ UNCHANGED <<tl_outlines, srt_dir_exists, srt_chunk_files, llm_raw_files,
                   timeline_files, tl_debug_files, tl_groups, tl_g, retry_count,
                   parsed_items, tl_calls, tl_written, tl_cache_used>>
    /\ UNCHANGED <<tl_run, tl_answered, tl_events>>
    /\ UNCHANGED notTimelineVars

\* The process ends, by returning or by dying between two steps, and
\* extract_timeline is called again with the same outlines on the same
\* metadata directory: the files stay, the locals start afresh.
TimelineRunAgain ==
    /\ tl_pc \in {"group", "attempt", "done"}
    /\ tl_run < MaxRuns
    /\ tl_run' = tl_run + 1
    /\ tl_answered' =
           {c \in ChunkIds : \E k \in 0..max_parse_retries :
                                 cache_file(c, k) \in llm_raw_files}
    /\ tl_groups' = <<>>
    /\ tl_g' = 1
    /\ retry_count' = 0
    /\ parsed_items' = NoItems
    /\ tl_pc' = "start"
    /\ tl_result' = <<>>
    /\ tl_calls' = [c \in ChunkIds |-> 0]
    /\ tl_written' = {}
    /\ tl_cache_used' = {}
    /\ tl_events' = <<>>
    /\ UNCHANGED <<tl_outlines, srt_dir_exists, srt_chunk_files, llm_raw_files,
                   timeline_files, tl_debug_files>>
    /\ UNCHANGED notTimelineVars

TimelineNext ==
    \/ TimelineReturnEarly \/ TimelineBegin \/ TimelineSkipGroup
    \/ TimelineGroupRaises \/ TimelineUseCache \/ TimelineEnterRetry
    \/ TimelineCallRaises \/ TimelineCallEmpty \/ TimelineCallAnswers
    \/ TimelineAssemble

\* the directories of a first run after step 1: the subtitle chunk is there
\* or not, and a cached response may have been put there
ResumeDiskChoices(c) ==
    {DiskOfChunk(SrtData(c), {}, NoTimelineFile),
     DiskOfChunk(SrtData(c), {llm_cache_path(c)}, NoTimelineFile),
     DiskOfChunk(NoSrtFile, {}, NoTimelineFile),
     DiskOfChunk([NoSrtFile EXCEPT !.kind = "corrupt"], {}, NoTimelineFile)}

\* a first run on such directories, called with at most one outline entry
TimelineFirstRun ==
    /\ TimelineStart
    /\ srt_dir_exists
    /\ Len(tl_outlines) <= 1
    /\ \A k \in 1..Len(tl_outlines) : tl_outlines[k].has_index
    /\ \A c \in ChunkIds :
           DiskOfChunk(srt_chunk_files[c],
                       {f \in llm_raw_files : f.chunk = c},
                       timeline_files[c]) \in ResumeDiskChoices(c)

ResumeNext == TimelineNext \/ TimelineRunAgain

(***************************************************************************)
(* Claims about extract_timeline                                           *)
(***************************************************************************)
\* the entry without its id
without_id(e) ==
    [json |-> e.json, keys |-> e.keys \ {"id"}, outline |-> e.outline,
     start_time |-> e.start_time, end_time |-> e.end_time,
     chunk_index |-> e.chunk_index]

\* the entries of the returned timeline that belong to chunk c
ReturnedOf(c) ==
    {without_id(tl_result[k]) : k \in {j \in 1..Len(tl_result) :
                                          tl_result[j].chunk_index = c}}

\* the items of a list, as a set
ItemSet(items) == {items[k] : k \in 1..Len(items)}

\* C11: when a run returns after going through its groups, the timeline holds
\* for each chunk whose result file the run wrote exactly the items it
\* validated for that chunk, and holds no item of any other chunk.
C11_OnlyThisRunsChunks ==
    (tl_pc = "done" /\ tl_groups # <<>>) =>
        \A c \in ChunkIds :
            ReturnedOf(c) = IF c \in tl_written
                            THEN ItemSet(timeline_files[c].items)
                            ELSE {}

\* C21: in a run that follows another on the same outlines and directories,
\* no provider call is made for a chunk for which the earlier run received a
\* non-empty response and wrote it to disk.
C21_NoCallForAnsweredChunk ==
    tl_run >= 2 => \A c \in tl_answered : tl_calls[c] = 0

\* C22: a chunk whose cached raw response file chunk_N.txt exists gets no
\* provider call in the run; a provider call is made for a chunk only when
\* that file is absent, and then the cache is not read for it.
C22_CachedChunkNotCalled ==
    \A c \in ChunkIds :
        /\ RawFile(c, -1) \in llm_raw_files => tl_calls[c] = 0
        /\ c \in tl_cache_used => RawFile(c, -1) \in llm_raw_files
        /\ tl_calls[c] > 0 => c \notin tl_cache_used

\* C22 witness: a finished run that read the cache for one chunk, without a
\* call, and called the provider for another chunk that had no cache file.
C22_Witness ==
    /\ tl_pc = "done"
    /\ \E c, d \in ChunkIds :
           /\ c \in tl_cache_used /\ tl_calls[c] = 0
           /\ RawFile(d, -1) \notin llm_raw_files /\ tl_calls[d] > 0

\* the error types that name a failure
ErrorTypes == {"parse_error", "invalid_structure", "not_list"}

\* C37 as stated: whenever _parse_and_validate_response ends without an item
\* (the parser raised, the value is not a list, or no item of the list
\* survived) and no write of a debug file failed, the debug directory holds
\* a file of the chunk tagged with an error type.
C37_ErrorTaggedOnEveryFailure ==
    (validate_pc = "done" /\ validated_items = <<>> /\ debug_failed = {}) =>
        \E t \in ErrorTypes : t \in debug_files

\* C37 amended: every call saves the response itself under the tag
\* original_response, whether it parses or not; a parser that raises adds
\* parse_error, a value that is not a list adds invalid_structure or
\* not_list, and a list of which no item survives adds nothing, unless the
\* membership test raised on an element (parse_error); each of these files
\* is either written or its write failed, and the items returned are the
\* same whichever writes failed.
C37_DebugFilesByFailure ==
    validate_pc = "done" =>
        /\ debug_files \cup debug_failed = debug_types_of(parsed_response)
        /\ debug_files \cap debug_failed = {}
        /\ validated_items =
               _parse_and_validate_response(parsed_response, chunk_start, chunk_end,
                                            v_chunk_index)

\* C37 witness: a list of two items of which none survived, the response
\* saved as original_response and no file tagged with an error type.
C37_Witness ==
    /\ validate_pc = "done"
    /\ parsed_response.kind = "list"
    /\ Len(parsed_response.items) = 2
    /\ validated_items = <<>>
    /\ debug_files = {"original_response"}
    /\ debug_failed = {}

\* C31: a cached raw response the run reads for a chunk is parsed and
\* validated: _parse_and_validate_response has run for the chunk, which leaves
\* the chunk's original_response file in the debug directory, and the chunk's
\* result file is written by the run unless the parse left a failure file.
C31_CachedResponseIsParsed ==
    \A c \in tl_cache_used :
        /\ <<c, "original_response">> \in tl_debug_files
        /\ \/ c \in tl_written
           \/ \E t \in {"parse_error", "invalid_structure", "not_list",
                         "final_parse_failure"} : <<c, t>> \in tl_debug_files

\* C23: a run makes at most one orchestrated provider call for each chunk
\* group: a round of the retry loop that follows a failed parse or
\* validation asks the provider for no new response.
C23_OneCallPerGroup ==
    \A c \in ChunkIds : tl_calls[c] <= 1

\* C25: within each extractor the chunks are gone through one after the
\* other.  In extract_outline the chunk files are all written before the
\* first call and the calls are made in order of chunk, one chunk at a time;
\* in extract_timeline the calls and file writes of one chunk are all made
\* before the first call of the next chunk, and none is made for it later:
\* nothing is done for a chunk the run has left or has written the result of.
C25_OneChunkAtATime ==
    /\ \A j, k \in 1..Len(call_log) : j < k => call_log[j] < call_log[k]
    /\ \A k \in 1..Len(call_log) :
           \A c \in 0..call_log[k] : \E f \in 1..Len(chunk_files) : chunk_files[f] = c
    /\ \A i \in 1..(Len(tl_events) - 1) :
           \/ /\ tl_events[i + 1].chunk = tl_events[i].chunk
              /\ tl_events[i].what # "write_result"
           \/ \A k \in (i + 1)..Len(tl_events) :
                  tl_events[k].chunk # tl_events[i].chunk

\* C25 witness: a finished timeline run that called the provider three times
\* for one chunk, wrote its result file, and then went on to another chunk.
C25_Witness ==
    /\ tl_pc = "done"
    /\ \E c, d \in ChunkIds :
           /\ c # d
           /\ tl_calls[c] = max_parse_retries + 1
           /\ c \in tl_written
           /\ tl_calls[d] >= 1
           /\ tl_events[1].chunk = c
           /\ tl_events[Len(tl_events)].chunk = d

\* while a group is being retried, every round so far made one call and none
\* of them gave a validated item or wrote the result file
StillRetrying ==
    tl_pc = "attempt" =>
        /\ retry_count <= max_parse_retries
        /\ tl_calls[current_chunk] = retry_count
        /\ parsed_items.items = <<>>
        /\ current_chunk \notin tl_written

\* the loop over the groups is over: the assembly of line 179 is next
AtAssembly == tl_pc = "group" /\ tl_g = Len(tl_groups) + 1

\* C32: extract_timeline makes at most 3 orchestrated calls for a chunk
\* group, each of at most max_retries provider attempts; a group is retried
\* only while no call for it has given a validated item or an empty
\* response; every run that does not return at once comes to the final
\* assembly, after its last group, and every orchestrated call returns or
\* raises.
C32_BoundedTermination ==
    /\ [](\A c \in ChunkIds : tl_calls[c] <= 3)
    /\ [](n_attempts <= AttemptBudget)
    /\ []StillRetrying
    /\ []((tl_pc = "done" /\ tl_groups # <<>>) => tl_g = Len(tl_groups) + 1)
    /\ (tl_pc = "start") ~> (AtAssembly \/ (tl_pc = "done" /\ tl_groups = <<>>))
    /\ (retry_pc = "start") ~> (retry_pc \in {"returned", "raised"})

\* C32 witness: a finished run of two groups, one that took three calls
\* without a result and one ended by its first call.
C32_Witness ==
    /\ tl_pc = "done"
    /\ Len(tl_groups) = 2
    /\ \E c, d \in ChunkIds :
           /\ tl_calls[c] = 3 /\ c \notin tl_written
           /\ tl_calls[d] = 1

IsSrtTime(t) ==
    /\ t.sep = "," /\ t.tail = ""
    /\ t.h \in 0..99 /\ t.m \in 0..99 /\ t.s \in 0..99 /\ t.ms \in 0..999

\* C39: every item of a result file the run wrote has start_time and
\* end_time written HH:MM:SS,mmm (the chunk bounds being so), and every
\* entry returned carries an id.
C39_WrittenTimesWellFormed ==
    /\ \A c \in tl_written :
           \A k \in 1..Len(timeline_files[c].items) :
               /\ IsSrtTime(timeline_files[c].items[k].start_time)
               /\ IsSrtTime(timeline_files[c].items[k].end_time)
    /\ tl_pc = "done" => \A k \in 1..Len(tl_result) : "id" \in tl_result[k].keys

\* C14: the returned timeline is in ascending order of start_time in seconds
\* and its k-th entry carries the id str(k): the ids are "1".."n" in order.
C14_SortedWithSequentialIds ==
    tl_pc = "done" =>
        /\ \A k \in 1..(Len(tl_result) - 1) :
               time_to_seconds(tl_result[k].start_time)
                 <= time_to_seconds(tl_result[k + 1].start_time)
        /\ \A k \in 1..Len(tl_result) :
               "id" \in tl_result[k].keys /\ tl_result[k].id = Str(k)
        /\ \A j, k \in 1..Len(tl_result) :
               tl_result[j].id = tl_result[k].id => j = k

\* C14 witness: a run wrote a result file, the files read in order are not
\* in order of start_time, and several entries are returned.
C14_Witness ==
    /\ tl_pc = "done"
    /\ tl_written # {}
    /\ Len(tl_result) >= 3
    /\ \E k \in 1..(Len(tl_result) - 1) :
           LET loaded == load_chunk_files(timeline_files, ChunkIds)
           IN  time_to_seconds(loaded[k].start_time)
                 > time_to_seconds(loaded[k + 1].start_time)

(***************************************************************************)
(* OutlineExtractor._merge_outlines on its own                              *)
(***************************************************************************)
MaxMergeLen == 3

\* an outline entry as _parse_outline_response builds it
OutlineEntry(t, subs, c) == [title |-> t, subtopics |-> subs, chunk_index |-> c]
MergeEntries ==
    {OutlineEntry(t, subs, c) : t \in {"A", "B"}, subs \in {<<>>, <<"s">>},
                                c \in {0, 1}}
MergeInputs == UNION {[1..n -> MergeEntries] : n \in 0..MaxMergeLen}

\* the list without its k-th entry
DeleteAt(seq, k) == SubSeq(seq, 1, k - 1) \o SubSeq(seq, k + 1, Len(seq))
\* the list with x put in as its p-th entry
InsertAt(seq, p, x) == SubSeq(seq, 1, p - 1) \o <<x>> \o SubSeq(seq, p, Len(seq))
\* the list with its k-th entry moved to position p
MoveTo(seq, k, p) == InsertAt(DeleteAt(seq, k), p, seq[k])

\* the k-th entry is the first of its title in the list
IsFirst(seq, k) == \A j \in 1..(k - 1) : seq[j].title # seq[k].title

NoEdit == [kind |-> "none", from |-> 0, to |-> 0]

MergeStart ==
    /\ m_input \in MergeInputs
    /\ m_output = <<>>
    /\ m_again = <<>>
    /\ m_variant = <<>>
    /\ m_variant_output = <<>>
    /\ m_edit = NoEdit
    /\ m_pc = "start"

\* no merge under way
MergeIdle ==
    /\ m_input = <<>>
    /\ m_output = <<>>
    /\ m_again = <<>>
    /\ m_variant = <<>>
    /\ m_variant_output = <<>>
    /\ m_edit = NoEdit
    /\ m_pc = "idle"

\* _merge_outlines(m_input)
MergeCall ==
    /\ m_pc = "start"
    /\ m_output' = _merge_outlines(m_input)
    /\ m_pc' = "merged"
    /\ UNCHANGED <<m_input, m_again, m_variant, m_variant_output, m_edit>>
    /\ UNCHANGED notMergeVars

\* _merge_outlines applied to its own result
MergeAgain ==
    /\ m_pc = "merged"
    /\ m_again' = _merge_outlines(m_output)
    /\ m_pc' = "again"
    /\ UNCHANGED <<m_input, m_output, m_variant, m_variant_output, m_edit>>
    /\ UNCHANGED notMergeVars

\* _merge_outlines applied to the input less one entry that is not the first
\* of its title
MergeDeleted ==
    /\ m_pc = "merged"
    /\ \E k \in 1..Len(m_input) :
           /\ ~IsFirst(m_input, k)
           /\ m_variant' = DeleteAt(m_input, k)
           /\ m_edit' = [kind |-> "delete", from |-> k, to |-> 0]
    /\ m_variant_output' = _merge_outlines(m_variant')
    /\ m_pc' = "edited"
    /\ UNCHANGED <<m_input, m_output, m_again>>
    /\ UNCHANGED notMergeVars

\* _merge_outlines applied to the input with one entry that is not the first
\* of its title moved to another position
MergeMoved ==
    /\ m_pc = "merged"
    /\ \E k \in 1..Len(m_input), p \in 1..Len(m_input) :
           /\ ~IsFirst(m_input, k)
           /\ p # k
           /\ m_variant' = MoveTo(m_input, k, p)
           /\ m_edit' = [kind |-> "move", from |-> k, to |-> p]
    /\ m_variant_output' = _merge_outlines(m_variant')
    /\ m_pc' = "edited"
    /\ UNCHANGED <<m_input, m_output, m_again>>
    /\ UNCHANGED notMergeVars

MergeNext == MergeCall \/ MergeAgain \/ MergeDeleted \/ MergeMoved

(***************************************************************************)
(* Claims about _merge_outlines                                            *)
(***************************************************************************)
\* how many first occurrences the list has up to its k-th entry
FirstsUpTo(seq, k) == Cardinality({j \in 1..k : IsFirst(seq, j)})

\* C12: the merged list is the input's first occurrences of each title, in
\* the order they are met: its titles are pairwise distinct, every title of
\* the input is in it, and the entry kept for a title is the first one.
C12_FirstOccurrenceWins ==
    m_pc \in {"merged", "again", "edited"} =>
        /\ Len(m_output) = FirstsUpTo(m_input, Len(m_input))
        /\ \A k \in 1..Len(m_input) :
               IsFirst(m_input, k) => m_output[FirstsUpTo(m_input, k)] = m_input[k]
        /\ \A i, j \in 1..Len(m_output) :
               m_output[i].title = m_output[j].title => i = j
        /\ \A k \in 1..Len(m_input) :
               \E i \in 1..Len(m_output) : m_output[i].title = m_input[k].title

\* C12 witness: an input in which a title comes back with other subtopics
\* after another title, merged to two entries.
C12_Witness ==
    /\ m_pc = "merged"
    /\ Len(m_input) = 3
    /\ m_input[1].title = m_input[3].title
    /\ m_input[1] # m_input[3]
    /\ m_input[2].title # m_input[1].title
    /\ m_output = <<m_input[1], m_input[2]>>

\* C13 (as stated): merging a merged list returns it unchanged, and deleting
\* or moving (anywhere) an entry that is not the first of its title leaves
\* the merged result unchanged.
C13_AnyMoveOrDelete ==
    /\ m_pc = "again" => m_again = m_output
    /\ m_pc = "edited" => m_variant_output = m_output

\* C13 (amended): merging a merged list returns it unchanged, and deleting an
\* entry that is not the first of its title, or moving it to a position
\* where it still comes after the first entry of its title, leaves the
\* merged result unchanged.
C13_MoveAfterFirstOrDelete ==
    /\ m_pc = "again" => m_again = m_output
    /\ (m_pc = "edited" /\ m_edit.kind = "delete") => m_variant_output = m_output
    /\ (m_pc = "edited" /\ m_edit.kind = "move"
           /\ ~IsFirst(m_variant, m_edit.to)) => m_variant_output = m_output

\* C13 witness: a later duplicate that differs from the first entry of its
\* title was moved to another place behind it.
C13_Witness ==
    /\ m_pc = "edited"
    /\ m_edit.kind = "move"
    /\ ~IsFirst(m_variant, m_edit.to)
    /\ m_variant # m_input
    /\ \E j \in 1..(m_edit.to - 1) :
           /\ m_variant[j].title = m_variant[m_edit.to].title
           /\ m_variant[j] # m_variant[m_edit.to]

(***************************************************************************)
(* LLMClient.parse_json_response                                           *)
(*                                                                         *)
(* A response text is a sequence of tokens: a run of prose (no bracket, no *)
(* backslash, no white space at its ends), white space, a backslash, a     *)
(* code fence ```, a control character or byte order mark, or the text of  *)
(* one JSON value.  The text of a list or mapping starts with its opening  *)
(* bracket and, unless it is truncated, ends with its closing bracket.     *)
(***************************************************************************)
MaxTokens == 3

Tok(t) == [t |-> t, type |-> "", flaw |-> "", name |-> ""]
\* the text of a JSON value of the given type; flaw is "none", or
\* "trailing_comma" / "single_quotes" (what _fix_common_errors repairs),
\* "truncated" (the text stops before the closing bracket), "ctrl" (a
\* control character inside one of its strings)
JsonText(type, flaw, name) == [t |-> "json", type |-> type, flaw |-> flaw, name |-> name]

Tokens ==
    {Tok("prose"), Tok("space"), Tok("backslash"), Tok("fence"), Tok("ctrl"),
     JsonText("list", "none", "L"), JsonText("dict", "none", "D"),
     JsonText("list", "trailing_comma", "Lc"),
     JsonText("dict", "single_quotes", "Dq"),
     JsonText("list", "truncated", "Lt"), JsonText("list", "ctrl", "Lx"),
     JsonText("number", "none", "N"), JsonText("null", "none", "Z")}

\* the argument of parse_json_response: a str with its text, or another value
StrResponse(toks) == [is_str |-> TRUE, tokens |-> toks]
NonStrResponse == [is_str |-> FALSE, tokens |-> <<>>]
RawResponses ==
    {StrResponse(toks) : toks \in UNION {[1..n -> Tokens] : n \in 0..MaxTokens}}
    \cup {NonStrResponse}

RECURSIVE lstrip(_)
lstrip(toks) ==
    IF toks # <<>> /\ Head(toks).t = "space" THEN lstrip(Tail(toks)) ELSE toks
RECURSIVE rstrip(_)
rstrip(toks) ==
    IF toks # <<>> /\ toks[Len(toks)].t = "space"
    THEN rstrip(SubSeq(toks, 1, Len(toks) - 1)) ELSE toks
\* str.strip()
strip(toks) == rstrip(lstrip(toks))

\* a value, or None
NoValue == [is_none |-> TRUE, type |-> "", name |-> ""]
Value(type, name) == [is_none |-> FALSE, type |-> type, name |-> name]

\* json.loads: the text is one well-formed JSON value between optional white
\* space; the value of "null" is None; ok is FALSE when JSONDecodeError is
\* raised
json_loads(toks) ==
    LET s == strip(toks)
    IN  IF Len(s) = 1 /\ s[1].t = "json" /\ s[1].flaw = "none"
        THEN [ok |-> TRUE,
              value |-> IF s[1].type = "null" THEN NoValue
                        ELSE Value(s[1].type, s[1].name)]
        ELSE [ok |-> FALSE, value |-> NoValue]

\* _fix_common_errors: commas before a closing bracket removed, single-quoted
\* keys double-quoted
_fix_common_errors(toks) ==
    [k \in 1..Len(toks) |->
        IF toks[k].t = "json" /\ toks[k].flaw \in {"trailing_comma", "single_quotes"}
        THEN [toks[k] EXCEPT !.flaw = "none"] ELSE toks[k]]

\* _try_load_json: the value, or None
_try_load_json(json_str) ==
    LET first == json_loads(json_str)
        second == json_loads(_fix_common_errors(json_str))
    IN  IF first.ok THEN first.value
        ELSE IF second.ok THEN second.value
        ELSE NoValue

\* _aggressive_clean: byte order marks and control characters removed, strip
_aggressive_clean(toks) ==
    LET kept == SelectSeq(toks, LAMBDA x : x.t # "ctrl")
    IN  strip([k \in 1..Len(kept) |->
                  IF kept[k].t = "json" /\ kept[k].flaw = "ctrl"
                  THEN [kept[k] EXCEPT !.flaw = "none"] ELSE kept[k]])

NoMatch == [matched |-> FALSE, candidate |-> <<>>]
Match(c) == [matched |-> TRUE, candidate |-> c]

\* line 67: re.search(r'```(?:json)?\s*([\s\S]*?)\s*```'): the text between
\* the first fence and the next one
code_block_match(toks) ==
    LET fences == {k \in 1..Len(toks) : toks[k].t = "fence"}
    IN  IF Cardinality(fences) < 2 THEN NoMatch
        ELSE LET a == CHOOSE k \in fences : \A j \in fences : k <= j
                 b == CHOOSE k \in fences \ {a} : \A j \in fences \ {a} : k <= j
             IN  Match(strip(SubSeq(toks, a + 1, b - 1)))

\* the text starts with '[' or '{'
starts_with_bracket(tok) == tok.t = "json" /\ tok.type \in {"list", "dict"}
\* the text ends with ']' or '}'
ends_with_bracket(tok) == starts_with_bracket(tok) /\ tok.flaw # "truncated"

\* line 76: the character class [\\[\{] of the pattern holds the backslash,
\* '[' and '{'
span_opener(tok) == tok.t = "backslash" \/ starts_with_bracket(tok)

\* line 76: re.search(r'([\\[\{][\s\S]*[\}\]])'): from the first character
\* of the class that has a closing bracket after it to the last closing
\* bracket of the text
json_pattern(toks) ==
    LET closers == {k \in 1..Len(toks) : ends_with_bracket(toks[k])}
        openers == {k \in 1..Len(toks) :
                       /\ span_opener(toks[k])
                       /\ \E j \in closers :
                              j > k \/ (j = k /\ starts_with_bracket(toks[k]))}
    IN  IF openers = {} THEN NoMatch
        ELSE LET a == CHOOSE k \in openers : \A j \in openers : k <= j
                 b == CHOOSE k \in closers : \A j \in closers : k >= j
             IN  Match(strip(SubSeq(toks, a, b)))

\* what parse_json_response does: return a value (found by the strategy
\* numbered 1 to 3, or by the guard of line 63, numbered 0) or raise
Returned(v, n) == [kind |-> "return", value |-> v, strategy |-> n]
Raised == [kind |-> "raise", value |-> NoValue, strategy |-> 3]
Pending == [kind |-> "none", value |-> NoValue, strategy |-> 0]
\* the value []
EmptyList == Value("list", "empty")

ParseStart ==
    /\ p_response \in RawResponses
    /\ p_result = Pending
    /\ p_tried = {}
    /\ p_pc = "start"

\* no parse under way
ParseIdle ==
    /\ p_response = NonStrResponse
    /\ p_result = Pending
    /\ p_tried = {}
    /\ p_pc = "idle"

\* lines 63-64: an empty string or a value that is no string returns []
ParseGuard ==
    /\ p_pc = "start"
    /\ IF ~p_response.is_str \/ p_response.tokens = <<>>
       THEN p_result' = Returned(EmptyList, 0) /\ p_pc' = "done"
       ELSE p_result' = p_result /\ p_pc' = "fenced"
    /\ UNCHANGED <<p_response, p_tried>>
    /\ UNCHANGED notParseVars

\* lines 66-72: the interior of the first fenced block
ParseFenced ==
    /\ p_pc = "fenced"
    /\ LET m == code_block_match(p_response.tokens)
           result == _try_load_json(m.candidate)
       IN  IF m.matched
           THEN /\ p_tried' = p_tried \cup {1}
                /\ IF ~result.is_none
                   THEN p_result' = Returned(result, 1) /\ p_pc' = "done"
                   ELSE p_result' = p_result /\ p_pc' = "span"
           ELSE UNCHANGED <<p_tried, p_result>> /\ p_pc' = "span"
    /\ UNCHANGED p_response
    /\ UNCHANGED notParseVars

\* lines 74-81: the span between the outer brackets
ParseSpan ==
    /\ p_pc = "span"
    /\ LET m == json_pattern(p_response.tokens)
           result == _try_load_json(m.candidate)
       IN  IF m.matched
           THEN /\ p_tried' = p_tried \cup {2}
                /\ IF ~result.is_none
                   THEN p_result' = Returned(result, 2) /\ p_pc' = "done"
                   ELSE p_result' = p_result /\ p_pc' = "clean"
           ELSE UNCHANGED <<p_tried, p_result>> /\ p_pc' = "clean"
    /\ UNCHANGED p_response
    /\ UNCHANGED notParseVars

\* lines 83-90: the whole text cleaned; ValueError when that fails too
ParseCleaned ==
    /\ p_pc = "clean"
    /\ LET result == _try_load_json(_aggressive_clean(p_response.tokens))
       IN  p_result' = IF ~result.is_none THEN Returned(result, 3) ELSE Raised
    /\ p_tried' = p_tried \cup {3}
    /\ p_pc' = "done"
    /\ UNCHANGED p_response
    /\ UNCHANGED notParseVars

ParseNext == ParseGuard \/ ParseFenced \/ ParseSpan \/ ParseCleaned

(***************************************************************************)
(* Claims about parse_json_response                                        *)
(***************************************************************************)
\* _validate_json_structure: not None, and a list or a dict
_validate_json_structure(data) == ~data.is_none /\ data.type \in {"list", "dict"}

\* C15: every value parse_json_response returns passes the structural check:
\* it is not None and it is a list or a mapping.
C15_ReturnsStructuredOnly ==
    (p_pc = "done" /\ p_result.kind = "return") =>
        _validate_json_structure(p_result.value)

\* C16: for an input that holds no JSON text at all (the empty string and
\* the values that are no strings included), parse_json_response raises.
C16_RaisesWithoutJson ==
    (p_pc = "done"
       /\ \A k \in 1..Len(p_response.tokens) : p_response.tokens[k].t # "json")
    => p_result.kind = "raise"

\* the span from the first '[' or '{' to the last ']' or '}'
bracket_span(toks) ==
    LET closers == {k \in 1..Len(toks) : ends_with_bracket(toks[k])}
        openers == {k \in 1..Len(toks) :
                       starts_with_bracket(toks[k]) /\ \E j \in closers : j >= k}
    IN  IF openers = {} THEN NoMatch
        ELSE LET a == CHOOSE k \in openers : \A j \in openers : k <= j
                 b == CHOOSE k \in closers : \A j \in closers : k >= j
             IN  Match(strip(SubSeq(toks, a, b)))

\* what strategy n makes of the text: a value, or None when it finds no
\* candidate or cannot parse it
StrategyValue(n, toks) ==
    CASE n = 1 -> IF code_block_match(toks).matched
                  THEN _try_load_json(code_block_match(toks).candidate)
                  ELSE NoValue
      [] n = 2 -> IF bracket_span(toks).matched
                  THEN _try_load_json(bracket_span(toks).candidate)
                  ELSE NoValue
      [] n = 3 -> _try_load_json(_aggressive_clean(toks))

\* C17: for a non-empty text the result is the value of the first strategy,
\* in the order fenced interior, first-bracket-to-last-bracket span, cleaned
\* text, that yields a value, each with the repairs on a failed first parse;
\* an error is raised when none does.
C17_FirstStrategyThatParses ==
    (p_pc = "done" /\ p_response.is_str /\ p_response.tokens # <<>>) =>
        LET toks == p_response.tokens
            good == {n \in 1..3 : ~StrategyValue(n, toks).is_none}
        IN  IF good = {} THEN p_result.kind = "raise"
            ELSE LET n == CHOOSE x \in good : \A y \in good : x <= y
                 IN  p_result = Returned(StrategyValue(n, toks), n)

(***************************************************************************)
(* LLMProvider.call and LLMProvider.test_connection                        *)
(***************************************************************************)
\* LLMResponse.content: None, or a text as the sequence of its words
NoContent == [is_none |-> TRUE, words |-> <<>>]
Text(words) == [is_none |-> FALSE, words |-> words]

\* The four characters the test prompt asks the model to reply with
\* (llm_providers.py line 151), transliterated.
TestSucceeded == "ceshi-chenggong"

\* What the backend does with the request: the connection fails, the key is
\* refused, the reply has status 200 but no choices (no output), the reply's
\* content is null, or the reply carries a text.
NetworkError == [kind |-> "network_error", content |-> NoContent]
AuthError == [kind |-> "auth_error", content |-> NoContent]
Malformed == [kind |-> "malformed", content |-> NoContent]
NullContent == [kind |-> "null_content", content |-> NoContent]
TextReply(words) == [kind |-> "text", content |-> Text(words)]

ReplyTexts ==
    {<<>>, <<TestSucceeded>>, <<"Success">>, <<"Test", "successful">>,
     <<"Hi", "there">>}

\* g4f hands back whatever the backend sent, as str(response)
Replies(kind) ==
    {NetworkError, AuthError, NullContent}
        \cup {TextReply(t) : t \in ReplyTexts}
        \cup (IF kind = "g4f" THEN {} ELSE {Malformed})

CallRaises == [kind |-> "raise", content |-> NoContent]
CallReturns(content) == [kind |-> "return", content |-> content]
NotCalled == [kind |-> "none", content |-> NoContent]

\* the variants built on the OpenAI client: content is
\* response.choices[0].message.content
OpenAIClientKinds == {"openai", "cerebras", "groq", "together", "openrouter"}

\* <Variant>Provider.call: every except branch logs and re-raises
provider_call(provider, reply) ==
    IF reply.kind \in {"network_error", "auth_error"}
    THEN CallRaises
    ELSE IF provider.kind = "dashscope"
    THEN \* lines 128-138: status 200 without output or text is content ""
         IF reply.kind \in {"malformed", "null_content"}
         THEN CallReturns(Text(<<>>))
         ELSE CallReturns(reply.content)
    ELSE IF provider.kind = "gemini"
    THEN \* line 284: response.text raises when the reply has no text part
         IF reply.kind \in {"malformed", "null_content"}
         THEN CallRaises
         ELSE CallReturns(reply.content)
    ELSE IF provider.kind = "g4f"
    THEN \* line 600: content = str(response)
         IF reply.kind = "null_content"
         THEN CallReturns(Text(<<"None">>))
         ELSE CallReturns(reply.content)
    ELSE \* the OpenAI client variants and siliconflow (line 367): indexing
         \* choices[0] raises when there is none, a null content is None
         IF reply.kind = "malformed"
         THEN CallRaises
         ELSE CallReturns(reply.content)

\* str.lower() on the words that occur in a reply
LowerReplyWord(w) ==
    CASE w = "Success" -> "success" [] w = "Test" -> "test" [] w = "Hi" -> "hi"
      [] w = "None" -> "none" [] OTHER -> w

\* sub in text, for a sub that is one word: some word of text holds it
word_holds(w, sub) == w = sub \/ (sub = "success" /\ w = "successful")
text_holds(words, sub) == \E k \in 1..Len(words) : word_holds(words[k], sub)

TestReturns(b) == [kind |-> "return", value |-> b]
TestRaises == [kind |-> "raise", value |-> FALSE]
NotTested == [kind |-> "none", value |-> FALSE]

\* the variants whose test_connection only makes the call (lines 458-463,
\* 506-511, 550-555, 614-619)
CallOnlyKinds == {"groq", "together", "openrouter", "g4f"}

\* A plausible slip: the membership test on the content is made outside the
\* try block, so that the TypeError of a None content leaves the function.
test_connection_ContentOutsideTry(provider, c) ==
    IF c.kind = "raise"
    THEN TestReturns(FALSE)
    ELSE IF provider.kind \in CallOnlyKinds
    THEN TestReturns(TRUE)
    ELSE IF c.content.is_none
    THEN TestRaises
    ELSE TestReturns(
             \/ text_holds(c.content.words, TestSucceeded)
             \/ text_holds([k \in 1..Len(c.content.words) |->
                               LowerReplyWord(c.content.words[k])], "success"))

\* <Variant>Provider.test_connection, given what self.call did.  In the
\* variants that look at the content (lines 148-155, 226-233, 293-300,
\* 381-388; CerebrasProvider inherits OpenAIProvider's), a None content makes
\* the membership test raise TypeError inside the try block.
test_connection(provider, c) ==
    IF c.kind = "raise"
    THEN TestReturns(FALSE)
    ELSE IF provider.kind \in CallOnlyKinds
    THEN TestReturns(TRUE)
    ELSE IF c.content.is_none
    THEN TestReturns(FALSE)
    ELSE TestReturns(
             \/ text_holds(c.content.words, TestSucceeded)
             \/ text_holds([k \in 1..Len(c.content.words) |->
                               LowerReplyWord(c.content.words[k])], "success"))

\* Where each variant sends its requests: the client of its constructor.
\* The base_url keyword of create_provider reaches LLMProvider.__init__ as
\* **kwargs (line 50) and no variant reads it: OpenAIProvider builds
\* openai.OpenAI(api_key=api_key) (line 193), the variants of other hosts
\* pass a literal (lines 336, 436, 484, 528, 638), and DashScope, Gemini
\* and G4F go through their own packages.
endpoint_of(provider) ==
    CASE provider.kind = "openai"      -> "https://api.openai.com/v1"
      [] provider.kind = "siliconflow" -> "https://api.siliconflow.cn/v1"
      [] provider.kind = "groq"        -> "https://api.groq.com/openai/v1"
      [] provider.kind = "together"    -> "https://api.together.xyz/v1"
      [] provider.kind = "openrouter"  -> "https://openrouter.ai/api/v1"
      [] provider.kind = "cerebras"    -> "https://api.cerebras.ai/v1"
      [] provider.kind = "dashscope"   -> "dashscope.Generation"
      [] provider.kind = "gemini"      -> "google.generativeai"
      [] OTHER                         -> "g4f.ChatCompletion"

\* test_api_key lines 120-133: LLMProviderFactory.create_provider for one of
\* the enumerated kinds with the base_url of get_api_config, then
\* test_connection entered
ConnStart ==
    /\ \E k \in ProviderTypes :
           tc_provider = create_provider(k, "key", "m1", BaseUrlOf(k))
    /\ tc_reply = NetworkError
    /\ tc_call = NotCalled
    /\ tc_result = NotTested
    /\ tc_pc = "start"
    /\ tc_endpoint = ""

\* no provider under test
ConnIdle ==
    /\ tc_provider = NoProvider
    /\ tc_reply = NetworkError
    /\ tc_call = NotCalled
    /\ tc_result = NotTested
    /\ tc_pc = "idle"
    /\ tc_endpoint = ""

\* the self.call(...) of test_connection: the backend replies and call
\* returns or raises
ConnCall ==
    /\ tc_pc = "start"
    /\ \E r \in Replies(tc_provider.kind) :
           /\ tc_reply' = r
           /\ tc_call' = provider_call(tc_provider, r)
    /\ tc_endpoint' = endpoint_of(tc_provider)
    /\ tc_pc' = "called"
    /\ UNCHANGED <<tc_provider, tc_result>>
    /\ UNCHANGED notConnVars

\* the rest of test_connection: the return value, or the except branch
ConnFinish ==
    /\ tc_pc = "called"
    /\ tc_result' = test_connection(tc_provider, tc_call)
    /\ tc_pc' = "done"
    /\ UNCHANGED <<tc_provider, tc_reply, tc_call, tc_endpoint>>
    /\ UNCHANGED notConnVars

ConnNext == ConnCall \/ ConnFinish

(***************************************************************************)
(* Claims about test_connection                                            *)
(***************************************************************************)
\* the variants built on the OpenAI client for a service hosted elsewhere
OpenAICompatibleKinds == {"siliconflow", "groq", "together", "openrouter", "cerebras"}

\* C38: a variant for an OpenAI-compatible service hosted elsewhere, created
\* by the factory with base_url B, sends its requests to B.
C38_DispatchesToBaseUrl ==
    (tc_pc \in {"called", "done"} /\ tc_provider.kind \in OpenAICompatibleKinds) =>
        tc_endpoint = tc_provider.base_url

\* the reply is an error of the call: no connection, a refused key, a reply
\* without choices, or a null or empty content
IsErrorReply(r) ==
    \/ r.kind \in {"network_error", "auth_error", "malformed", "null_content"}
    \/ (r.kind = "text" /\ r.content.words = <<>>)

\* C20 (as stated): for every variant test_connection returns a boolean and
\* never raises, and every error of the call (network, authentication,
\* malformed or empty content) gives False.
C20_AnyErrorIsFalse ==
    tc_pc = "done"
    => /\ tc_result.kind = "return"
       /\ tc_result.value \in BOOLEAN
       /\ IsErrorReply(tc_reply) => tc_result.value = FALSE

\* C20 (amended): for every variant test_connection returns a boolean and
\* never raises; it gives False whenever the call raised, and, in the variants
\* that look at the content, whenever the content is null or empty.
C20_RaisedErrorIsFalse ==
    tc_pc = "done"
    => /\ tc_result.kind = "return"
       /\ tc_result.value \in BOOLEAN
       /\ tc_call.kind = "raise" => tc_result.value = FALSE
       /\ (/\ tc_provider.kind \notin CallOnlyKinds
           /\ IsErrorReply(tc_reply))
          => tc_result.value = FALSE

\* C20 witness: the OpenAI variant got a reply with a null content, call
\* returned it, and test_connection answered False.
C20_Witness ==
    /\ tc_pc = "done"
    /\ tc_provider.kind = "openai"
    /\ tc_reply = NullContent
    /\ tc_call = CallReturns(NoContent)
    /\ tc_result = TestReturns(FALSE)

(***************************************************************************)
(* LLMProviderFactory.get_all_available_models                             *)
(***************************************************************************)
\* LLMProviderFactory._providers: the kinds, in the order of the dict
_providers ==
    <<"dashscope", "openai", "gemini", "siliconflow", "groq", "together",
      "openrouter", "g4f", "cerebras">>

\* the packages the constructors import
Packages == {"dashscope", "openai", "google.generativeai", "g4f"}

\* the package <Variant>Provider.__init__ imports ("" for SiliconFlowProvider,
\* which imports requests in call only; CerebrasProvider goes through
\* OpenAIProvider.__init__)
imported_by(kind) ==
    CASE kind = "dashscope" -> "dashscope"
      [] kind = "gemini" -> "google.generativeai"
      [] kind = "g4f" -> "g4f"
      [] kind = "siliconflow" -> ""
      [] OTHER -> "openai"

\* provider_class("dummy_key", "dummy_model"): the constructor raises
\* ImportError when its package is missing; the key is stored, never checked
constructor_raises(kind, api_key, installed) ==
    imported_by(kind) # "" /\ imported_by(kind) \notin installed

\* <Variant>Provider.get_available_models: the names of the ModelInfo entries
get_available_models(kind) ==
    CASE kind = "dashscope" -> <<"qwen-plus", "qwen-max", "qwen-turbo">>
      [] kind = "openai" -> <<"gpt-3.5-turbo", "gpt-4", "gpt-4-turbo">>
      [] kind = "gemini" ->
             <<"gemini-2.5-flash", "gemini-1.5-pro", "gemini-1.5-flash">>
      [] kind = "siliconflow" ->
             <<"Qwen/Qwen2.5-7B-Instruct", "Qwen/Qwen2.5-14B-Instruct",
               "Qwen/Qwen2.5-32B-Instruct", "deepseek-ai/DeepSeek-V2.5">>
      [] kind = "groq" ->
             <<"llama-3.1-8b-instant", "llama-3.3-70b-versatile",
               "meta-llama/llama-guard-4-12b", "openai/gpt-oss-120b",
               "openai/gpt-oss-20b", "mixtral-8x7b-32768">>
      [] kind = "together" ->
             <<"meta-llama/Meta-Llama-3.1-70B-Instruct-Turbo",
               "meta-llama/Meta-Llama-3.1-8B-Instruct-Turbo">>
      [] kind = "openrouter" ->
             <<"xiaomi/mimo-v2-flash:free", "mistralai/mistral-devstral-2512:free",
               "kwaipilot/kat-coder-pro-v1:free", "tngtech/deepseek-r1t2-chimera:free",
               "nex-agi/deepseek-v3.1-nex-n1:free",
               "nvidia/nemotron-3-nano-30b-a3b:free",
               "tngtech/deepseek-r1t-chimera:free", "z-ai/glm-4.5-air:free",
               "nvidia/nemotron-nano-12b-2-vl:free", "tngtech/r1t-chimera:free",
               "google/gemini-flash-1.5", "anthropic/claude-3.5-sonnet">>
      [] kind = "g4f" -> <<"gpt-4o", "gpt-4", "claude-3.5-sonnet">>
      [] kind = "cerebras" ->
             <<"gpt-oss-120b", "llama-3.3-70b", "llama3.1-8b",
               "qwen-3-235b-a22b-instruct-2507", "qwen-3-32b", "zai-glm-4.6">>

\* A plausible slip: the except branch only logs, and the kind gets no entry.
with_models_of_SkipFailed(models, kind, installed) ==
    IF constructor_raises(kind, "dummy_key", installed)
    THEN models
    ELSE Append(models, [provider_type |-> kind,
                         models |-> get_available_models(kind)])

\* lines 682-688: one iteration; models is the dict, as the list of its
\* entries in insertion order
with_models_of(models, kind, installed) ==
    IF constructor_raises(kind, "dummy_key", installed)
    THEN Append(models, [provider_type |-> kind, models |-> <<>>])
    ELSE Append(models, [provider_type |-> kind,
                         models |-> get_available_models(kind)])

\* get_all_available_models called in an environment with some of the
\* packages installed
CatalogStart ==
    /\ cat_installed \in SUBSET Packages
    /\ cat_models = <<>>
    /\ cat_pos = 1
    /\ cat_pc = "loop"

\* the factory before any call
CatalogIdle ==
    /\ cat_installed = {}
    /\ cat_models = <<>>
    /\ cat_pos = 1
    /\ cat_pc = "idle"

\* lines 681-688: one iteration of the for loop
CatalogStep ==
    /\ cat_pc = "loop"
    /\ cat_pos <= Len(_providers)
    /\ cat_models' = with_models_of(cat_models, _providers[cat_pos], cat_installed)
    /\ cat_pos' = cat_pos + 1
    /\ UNCHANGED <<cat_installed, cat_pc>>
    /\ UNCHANGED notCatalogVars

\* line 689
CatalogReturn ==
    /\ cat_pc = "loop"
    /\ cat_pos > Len(_providers)
    /\ cat_pc' = "done"
    /\ UNCHANGED <<cat_installed, cat_models, cat_pos>>
    /\ UNCHANGED notCatalogVars

CatalogNext == CatalogStep \/ CatalogReturn

(***************************************************************************)
(* Claims about get_all_available_models                                   *)
(***************************************************************************)
\* C26: the catalog returned holds exactly one entry for every enumerated
\* provider kind, whatever is installed; the entry of a kind whose
\* construction fails is the empty list, that of every other kind its static
\* model list.
C26_CatalogCoversEveryKind ==
    cat_pc = "done"
    => /\ \A kind \in ProviderTypes :
              \E k \in 1..Len(cat_models) :
                  /\ cat_models[k].provider_type = kind
                  /\ cat_models[k].models =
                         IF constructor_raises(kind, "dummy_key", cat_installed)
                         THEN <<>> ELSE get_available_models(kind)
       /\ \A j, k \in 1..Len(cat_models) :
              cat_models[j].provider_type = cat_models[k].provider_type => j = k
       /\ \A k \in 1..Len(cat_models) : cat_models[k].provider_type \in ProviderTypes

\* C26 witness: a catalog returned where the openai package is missing: the
\* five kinds built on it have empty lists, dashscope has its three models.
C26_Witness ==
    /\ cat_pc = "done"
    /\ "openai" \notin cat_installed
    /\ "dashscope" \in cat_installed
    /\ \E k \in 1..Len(cat_models) :
           cat_models[k].provider_type = "groq" /\ cat_models[k].models = <<>>
    /\ \E k \in 1..Len(cat_models) :
           /\ cat_models[k].provider_type = "dashscope"
           /\ Len(cat_models[k].models) = 3

(***************************************************************************)
(* OutlineExtractor._parse_outline_response, called on its own             *)
(***************************************************************************)
MaxLines == 3

\* the stripped lines a response is made of: title lines, dash lines whose
\* text after the dash has 0, 5, 200 or 201 characters, and other lines
RecognizedLines ==
    ResponseLines \cup {DashLine("", 0), DashLine("m", 200)}

LineLists == UNION {[1..n -> RecognizedLines] : n \in 1..MaxLines}

RecognizeStart ==
    /\ po_response \in LineLists
    /\ po_chunk_index \in 0..1
    /\ po_outlines = <<>>
    /\ po_pc = "start"

RecognizeIdle ==
    /\ po_response = <<OtherLine>>
    /\ po_chunk_index = 0
    /\ po_outlines = <<>>
    /\ po_pc = "idle"

\* lines 132-169: the call
RecognizeCall ==
    /\ po_pc = "start"
    /\ po_outlines' = _parse_outline_response(po_response, po_chunk_index)
    /\ po_pc' = "done"
    /\ UNCHANGED <<po_response, po_chunk_index>>
    /\ UNCHANGED notRecognizeVars

RecognizeNext == RecognizeCall

(***************************************************************************)
(* Claims about _parse_outline_response                                    *)
(***************************************************************************)
\* the positions of the title lines of a response, in order
TitlePositions(lines) ==
    SelectSeq([k \in 1..Len(lines) |-> k], LAMBDA k : lines[k].kind = "title")

\* the dash lines whose text can be stored: not empty, 200 characters at most
Storable(line) ==
    line.kind = "dash" /\ line.text_len > 0 /\ line.text_len <= 200

\* the texts of the storable dash lines at the positions from..to
SubtopicsBetween(lines, from, to) ==
    LET kept == SelectSeq(SubSeq(lines, from, to), Storable)
    IN  [k \in 1..Len(kept) |-> kept[k].text]

\* C30: the call returns one entry per title line, in the order of the title
\* lines, each with the title of its line and the chunk index given; the
\* subtopics of an entry are the dash lines between its title line and the
\* next title line (or the end) whose text is not empty and at most 200
\* characters long, in order; dash lines before the first title line are in
\* no entry.
C30_TwoStateRecognizer ==
    po_pc = "done" =>
        LET tp == TitlePositions(po_response)
        IN  /\ Len(po_outlines) = Len(tp)
            /\ \A j \in 1..Len(tp) :
                   /\ po_outlines[j].title = po_response[tp[j]].text
                   /\ po_outlines[j].chunk_index = po_chunk_index
                   /\ po_outlines[j].subtopics
                          = SubtopicsBetween(po_response, tp[j] + 1,
                                             IF j < Len(tp) THEN tp[j + 1] - 1
                                             ELSE Len(po_response))

\* C30 witness: a dash line, then a title line, then a dash line of 200
\* characters: one entry, holding the second dash line only.
C30_Witness ==
    /\ po_pc = "done"
    /\ po_response = <<DashLine("s", 5), TitleLine("A"), DashLine("m", 200)>>
    /\ Len(po_outlines) = 1
    /\ po_outlines[1].subtopics = <<"m">>

(***************************************************************************)
(* Two runs of extract_timeline interleaved on one metadata directory      *)
(***************************************************************************)
Runs == {1, 2}

\* the outlines both runs are called with
RaceOutlines ==
    {<<Outline("A", TRUE, 0)>>,
     <<Outline("A", TRUE, 0), Outline("B", TRUE, 1)>>,
     <<Outline("A", TRUE, 1), Outline("A", TRUE, 0)>>}

\* a write of chunk_N.json (lines 151-152) by a run
WriteOf(r, c, items) == [run |-> r, chunk |-> c, items |-> items]

\* Both runs are entered after step 1 with the same outlines: the subtitle
\* chunk files are there, no raw response is cached and no result file
\* exists yet.
RaceStart ==
    /\ rc_outlines \in RaceOutlines
    /\ rc_files = [c \in ChunkIds |-> NoTimelineFile]
    /\ rc_writes = <<>>
    /\ rc_groups = [r \in Runs |-> <<>>]
    /\ rc_g = [r \in Runs |-> 1]
    /\ rc_retry = [r \in Runs |-> 0]
    /\ rc_pc = [r \in Runs |-> "start"]
    /\ rc_result = [r \in Runs |-> <<>>]
    /\ rc_assembled_at = [r \in Runs |-> 0]

RaceIdle ==
    /\ rc_outlines = <<>>
    /\ rc_files = [c \in ChunkIds |-> NoTimelineFile]
    /\ rc_writes = <<>>
    /\ rc_groups = [r \in Runs |-> <<>>]
    /\ rc_g = [r \in Runs |-> 1]
    /\ rc_retry = [r \in Runs |-> 0]
    /\ rc_pc = [r \in Runs |-> "idle"]
    /\ rc_result = [r \in Runs |-> <<>>]
    /\ rc_assembled_at = [r \in Runs |-> 0]

\* lines 59-72 in run r
RaceBegin(r) ==
    /\ rc_pc[r] = "start"
    /\ rc_groups' = [rc_groups EXCEPT ![r] = group_from(rc_outlines, <<>>)]
    /\ rc_pc' = [rc_pc EXCEPT ![r] = "group"]
    /\ UNCHANGED <<rc_outlines, rc_files, rc_writes, rc_g, rc_retry, rc_result,
                   rc_assembled_at>>
    /\ UNCHANGED notRaceVars

\* the group run r is at
race_chunk(r) == rc_groups[r][rc_g[r]].chunk_index

\* lines 128-130 and 165-173 in run r: the call raises; the next round, or
\* after the last round the next group
RaceCallRaises(r) ==
    /\ rc_pc[r] = "group"
    /\ rc_g[r] <= Len(rc_groups[r])
    /\ IF rc_retry[r] = max_parse_retries
       THEN /\ rc_g' = [rc_g EXCEPT ![r] = @ + 1]
            /\ rc_retry' = [rc_retry EXCEPT ![r] = 0]
       ELSE /\ rc_retry' = [rc_retry EXCEPT ![r] = @ + 1]
            /\ rc_g' = rc_g
    /\ UNCHANGED <<rc_outlines, rc_files, rc_writes, rc_groups, rc_pc, rc_result,
                   rc_assembled_at>>
    /\ UNCHANGED notRaceVars

\* lines 130-134 and 171-173 in run r: an empty response, the next group
RaceCallEmpty(r) ==
    /\ rc_pc[r] = "group"
    /\ rc_g[r] <= Len(rc_groups[r])
    /\ rc_g' = [rc_g EXCEPT ![r] = @ + 1]
    /\ rc_retry' = [rc_retry EXCEPT ![r] = 0]
    /\ UNCHANGED <<rc_outlines, rc_files, rc_writes, rc_groups, rc_pc, rc_result,
                   rc_assembled_at>>
    /\ UNCHANGED notRaceVars

\* lines 130-163 in run r: a response is parsed and validated; a non-empty
\* list is written to chunk_N.json, whatever the file holds, and ends the
\* rounds; an empty one leads to the next round or the next group
RaceCallAnswers(r) ==
    /\ rc_pc[r] = "group"
    /\ rc_g[r] <= Len(rc_groups[r])
    /\ \E pr \in TlResponses :
           LET c == race_chunk(r)
               f == SrtData(c)
               items == _parse_and_validate_response(pr, f.start_time, f.end_time, c)
           IN  IF items # <<>>
               THEN /\ rc_files' = [rc_files EXCEPT ![c] = TimelineFile(items)]
                    /\ rc_writes' = Append(rc_writes, WriteOf(r, c, items))
                    /\ rc_g' = [rc_g EXCEPT ![r] = @ + 1]
                    /\ rc_retry' = [rc_retry EXCEPT ![r] = 0]
               ELSE /\ UNCHANGED <<rc_files, rc_writes>>
                    /\ IF rc_retry[r] = max_parse_retries
                       THEN /\ rc_g' = [rc_g EXCEPT ![r] = @ + 1]
                            /\ rc_retry' = [rc_retry EXCEPT ![r] = 0]
                       ELSE /\ rc_retry' = [rc_retry EXCEPT ![r] = @ + 1]
                            /\ rc_g' = rc_g
    /\ UNCHANGED <<rc_outlines, rc_groups, rc_pc, rc_result, rc_assembled_at>>
    /\ UNCHANGED notRaceVars

\* lines 179-206 in run r: the result files that exist now are read
RaceAssemble(r) ==
    /\ rc_pc[r] = "group"
    /\ rc_g[r] > Len(rc_groups[r])
    /\ rc_result' = [rc_result EXCEPT ![r] = assemble(rc_files)]
    /\ rc_assembled_at' = [rc_assembled_at EXCEPT ![r] = Len(rc_writes)]
    /\ rc_pc' = [rc_pc EXCEPT ![r] = "done"]
    /\ UNCHANGED <<rc_outlines, rc_files, rc_writes, rc_groups, rc_g, rc_retry>>
    /\ UNCHANGED notRaceVars

RaceNext ==
    \E r \in Runs :
        \/ RaceBegin(r) \/ RaceCallRaises(r) \/ RaceCallEmpty(r)
        \/ RaceCallAnswers(r) \/ RaceAssemble(r)

(***************************************************************************)
(* Claims about interleaved runs                                           *)
(***************************************************************************)
\* the writes of chunk c's result file among the first n writes
WritesOf(c, n) == SelectSeq(SubSeq(rc_writes, 1, n), LAMBDA w : w.chunk = c)

\* the entries run r returned for chunk c, without their ids
RaceReturnedOf(r, c) ==
    {without_id(rc_result[r][k]) :
         k \in {j \in 1..Len(rc_result[r]) : rc_result[r][j].chunk_index = c}}

\* C35: nothing keeps a run from the result files of another: what a run
\* returns for a chunk is what the last write of that chunk's result file
\* before its assembly left there, whichever run made that write.
C35_ReturnsLastWriteOfAnyRun ==
    \A r \in Runs :
        rc_pc[r] = "done" =>
            \A c \in ChunkIds :
                LET ws == WritesOf(c, rc_assembled_at[r])
                IN  RaceReturnedOf(r, c) =
                        IF ws = <<>> THEN {} ELSE ItemSet(ws[Len(ws)].items)

\* C35 witness: a run has returned a timeline holding, for a chunk it wrote
\* itself, the items another run wrote over its own.
C35_Witness ==
    \E r, o \in Runs :
        /\ r # o
        /\ rc_pc[r] = "done"
        /\ \E c \in ChunkIds :
               LET ws == WritesOf(c, rc_assembled_at[r])
               IN  /\ Len(ws) = 2
                   /\ ws[1].run = r /\ ws[2].run = o
                   /\ ws[1].items # ws[2].items
                   /\ RaceReturnedOf(r, c) = ItemSet(ws[2].items)
                   /\ RaceReturnedOf(r, c) # ItemSet(ws[1].items)

(***************************************************************************)
(* Specifications                                                          *)
(***************************************************************************)
InitChunk == ChunkStart /\ ValidateIdle /\ RetryIdle /\ OutlineIdle /\ TimelineIdle
    /\ MergeIdle /\ ParseIdle /\ ConnIdle /\ CatalogIdle /\ RecognizeIdle /\ RaceIdle
SpecChunk == InitChunk /\ [][ChunkNext]_vars

InitValidate == ValidateStart /\ ChunkIdle /\ RetryIdle /\ OutlineIdle /\ TimelineIdle
    /\ MergeIdle /\ ParseIdle /\ ConnIdle /\ CatalogIdle /\ RecognizeIdle /\ RaceIdle
SpecValidate == InitValidate /\ [][ValidateNext]_vars

InitRetry == RetryStart /\ ChunkIdle /\ ValidateIdle /\ OutlineIdle /\ TimelineIdle
    /\ MergeIdle /\ ParseIdle /\ ConnIdle /\ CatalogIdle /\ RecognizeIdle /\ RaceIdle
SpecRetry == InitRetry /\ [][RetryNext]_vars

InitOutline == OutlineStart /\ ChunkIdle /\ ValidateIdle /\ RetryIdle /\ TimelineIdle
    /\ MergeIdle /\ ParseIdle /\ ConnIdle /\ CatalogIdle /\ RecognizeIdle /\ RaceIdle
SpecOutline == InitOutline /\ [][OutlineNext]_vars

InitTimeline == TimelineStart /\ ChunkIdle /\ ValidateIdle /\ RetryIdle /\ OutlineIdle
    /\ MergeIdle /\ ParseIdle /\ ConnIdle /\ CatalogIdle /\ RecognizeIdle /\ RaceIdle
SpecTimeline == InitTimeline /\ [][TimelineNext]_vars

InitExtractors == InitOutline \/ InitTimeline
ExtractorsNext == OutlineNext \/ TimelineNext
SpecExtractors == InitExtractors /\ [][ExtractorsNext]_vars

\* the runs whose end is checked: a first run of extract_timeline after step
\* 1 on outlines of one title that all have a chunk index, chunk 1 having
\* its subtitle file and no cached response, or an orchestrated call made
\* with no environment variable set and settings.json naming groq, with or
\* without its key and with no OpenAI key
InitLive ==
    \/ /\ InitTimeline
       /\ \A k \in 1..Len(tl_outlines) :
              tl_outlines[k].has_index /\ tl_outlines[k].title = "A"
       /\ srt_chunk_files[1].kind \in {"data", "missing"}
       /\ srt_dir_exists => srt_chunk_files[1].kind = "data"
       /\ llm_cache_path(1) \notin llm_raw_files
       /\ \A c \in ChunkIds :
              DiskOfChunk(srt_chunk_files[c], {f \in llm_raw_files : f.chunk = c},
                          timeline_files[c]) \in ResumeDiskChoices(c)
    \/ /\ InitRetry
       /\ env = NoEnv
       /\ settings_file.llm_provider = "groq"
       /\ settings_file.groq_api_key \in {"", "gk1"}
       /\ settings_file.openai_api_key = ""
LiveNext == TimelineNext \/ RetryNext
\* the steps of the call itself: the writer of settings.json is another
\* process and owes no step
RetryProgress == RetryBegin \/ AttemptSucceeds \/ AttemptFails \/ Wake
\* the steps of extract_timeline up to the assembly of line 179
TimelineLoop ==
    \/ TimelineReturnEarly \/ TimelineBegin \/ TimelineSkipGroup
    \/ TimelineGroupRaises \/ TimelineUseCache \/ TimelineEnterRetry
    \/ TimelineCallRaises \/ TimelineCallEmpty \/ TimelineCallAnswers
SpecLive ==
    InitLive /\ [][LiveNext]_vars /\ WF_vars(TimelineLoop) /\ WF_vars(RetryProgress)

InitResume == TimelineFirstRun /\ ChunkIdle /\ ValidateIdle /\ RetryIdle /\ OutlineIdle
    /\ MergeIdle /\ ParseIdle /\ ConnIdle /\ CatalogIdle /\ RecognizeIdle /\ RaceIdle
SpecResume == InitResume /\ [][ResumeNext]_vars

InitMerge ==
    MergeStart /\ ChunkIdle /\ ValidateIdle /\ RetryIdle /\ OutlineIdle
    /\ TimelineIdle /\ ParseIdle /\ ConnIdle /\ CatalogIdle /\ RecognizeIdle /\ RaceIdle
SpecMerge == InitMerge /\ [][MergeNext]_vars

InitParse ==
    ParseStart /\ ChunkIdle /\ ValidateIdle /\ RetryIdle /\ OutlineIdle
    /\ TimelineIdle /\ MergeIdle /\ ConnIdle /\ CatalogIdle /\ RecognizeIdle /\ RaceIdle
SpecParse == InitParse /\ [][ParseNext]_vars

InitConn ==
    ConnStart /\ ChunkIdle /\ ValidateIdle /\ RetryIdle /\ OutlineIdle
    /\ TimelineIdle /\ MergeIdle /\ ParseIdle /\ CatalogIdle /\ RecognizeIdle /\ RaceIdle
SpecConn == InitConn /\ [][ConnNext]_vars

InitCatalog ==
    CatalogStart /\ ChunkIdle /\ ValidateIdle /\ RetryIdle /\ OutlineIdle
    /\ TimelineIdle /\ MergeIdle /\ ParseIdle /\ ConnIdle /\ RecognizeIdle /\ RaceIdle
SpecCatalog == InitCatalog /\ [][CatalogNext]_vars

InitRecognize ==
    RecognizeStart /\ ChunkIdle /\ ValidateIdle /\ RetryIdle /\ OutlineIdle
    /\ TimelineIdle /\ MergeIdle /\ ParseIdle /\ ConnIdle /\ CatalogIdle /\ RaceIdle
SpecRecognize == InitRecognize /\ [][RecognizeNext]_vars

InitRace ==
    RaceStart /\ ChunkIdle /\ ValidateIdle /\ RetryIdle /\ OutlineIdle
    /\ TimelineIdle /\ MergeIdle /\ ParseIdle /\ ConnIdle /\ CatalogIdle
    /\ RecognizeIdle
SpecRace == InitRace /\ [][RaceNext]_vars
====
